---- MODULE Spec2Model ----
(***************************************************************************)
(* Telegram-Notifier: the journal classifier (internal/systemd/journal.go),*)
(* the secret filter and the error sanitizer                               *)
(* (internal/validation/validation.go) and the token bucket of package     *)
(* ratelimit (internal/config/config.go).                                  *)
(*                                                                         *)
(* A Go string is modelled as a sequence of one-character strings, so that *)
(* strings.Index, strings.Contains, slicing and the like are computed the  *)
(* way the code computes them.  Indexes are 0-based as in Go; s[a:b] is    *)
(* Slice(s, a, b).                                                         *)
(***************************************************************************)
EXTENDS Integers, Sequences, FiniteSets, TLC

(***************************************************************************)
(* Go string primitives used by the code.                                  *)
(***************************************************************************)
Min(S) == CHOOSE x \in S : \A y \in S : x <= y

Max(S) == CHOOSE x \in S : \A y \in S : y <= x

\* s[a:b]
Slice(s, a, b) == SubSeq(s, a + 1, b)

\* s[a:]
SliceFrom(s, a) == SubSeq(s, a + 1, Len(s))

\* sub occurs in s at the 0-based offset i
MatchAt(s, sub, i) == \A k \in 1..Len(sub) : s[i + k] = sub[k]

\* the 0-based offsets at which sub occurs in s
Occurrences(s, sub) == {i \in 0..(Len(s) - Len(sub)) : MatchAt(s, sub, i)}

\* strings.Index
Index(s, sub) == IF Occurrences(s, sub) = {} THEN -1 ELSE Min(Occurrences(s, sub))

\* strings.LastIndex
LastIndex(s, sub) == IF Occurrences(s, sub) = {} THEN -1 ELSE Max(Occurrences(s, sub))

\* strings.Contains
Contains(s, sub) == \E i \in 0..(Len(s) - Len(sub)) : MatchAt(s, sub, i)

\* strings.HasPrefix
HasPrefix(s, p) == Len(p) <= Len(s) /\ MatchAt(s, p, 0)

\* strings.HasSuffix
HasSuffix(s, p) == Len(p) <= Len(s) /\ MatchAt(s, p, Len(s) - Len(p))

\* strings.TrimPrefix
TrimPrefix(s, p) == IF HasPrefix(s, p) THEN SliceFrom(s, Len(p)) ELSE s

\* strings.TrimSuffix
TrimSuffix(s, p) == IF HasSuffix(s, p) THEN Slice(s, 0, Len(s) - Len(p)) ELSE s

\* strings.Count for a one-character separator
CountChar(s, c) == Cardinality({i \in 1..Len(s) : s[i] = c})

\* unicode.IsSpace on the characters of the model
WhiteSpace == {" ", "\t", "\n", "\r"}

\* strings.TrimLeft and strings.TrimRight with the white space as cutset
RECURSIVE TrimLeftSpace(_)
TrimLeftSpace(s) ==
    IF s # << >> /\ Head(s) \in WhiteSpace THEN TrimLeftSpace(Tail(s)) ELSE s

RECURSIVE TrimRightSpace(_)
TrimRightSpace(s) ==
    IF s # << >> /\ s[Len(s)] \in WhiteSpace
    THEN TrimRightSpace(SubSeq(s, 1, Len(s) - 1))
    ELSE s

\* strings.TrimSpace
TrimSpace(s) == TrimRightSpace(TrimLeftSpace(s))

\* the first offset at or after i (1-based) of a character that is, or is not, in set
RECURSIVE Scan(_, _, _, _)
Scan(s, i, set, member) ==
    IF i > Len(s) \/ ((s[i] \in set) = member) THEN i ELSE Scan(s, i + 1, set, member)

\* strings.Fields: the maximal runs of non-space characters, in order
RECURSIVE FieldsFrom(_, _)
FieldsFrom(s, i) ==
    LET b == Scan(s, i, WhiteSpace, FALSE)
        e == Scan(s, b, WhiteSpace, TRUE)
    IN  IF b > Len(s) THEN << >> ELSE <<SubSeq(s, b, e - 1)>> \o FieldsFrom(s, e)

Fields(s) == FieldsFrom(s, 1)

\* strings.Split(s, sep) for a one-character separator: always at least one piece
RECURSIVE SplitFrom(_, _, _)
SplitFrom(s, c, i) ==
    LET e == Scan(s, i, {c}, TRUE)
    IN  IF e > Len(s) THEN <<SubSeq(s, i, Len(s))>>
        ELSE <<SubSeq(s, i, e - 1)>> \o SplitFrom(s, c, e + 1)

Split(s, c) == SplitFrom(s, c, 1)

\* strings.Join
RECURSIVE Join(_, _)
Join(elems, sep) ==
    IF Len(elems) = 0 THEN << >>
    ELSE IF Len(elems) = 1 THEN elems[1]
    ELSE elems[1] \o sep \o Join(Tail(elems), sep)

(***************************************************************************)
(* String constants of the code.                                           *)
(***************************************************************************)
SepPrefix == <<"-","-"," ">>
SelfName == <<"t","e","l","e","g","r","a","m","-","n","o","t","i","f","i","e","r">>
StartingKw == <<"S","t","a","r","t","i","n","g">>
StartedKw == <<"S","t","a","r","t","e","d">>
FinishedKw == <<"F","i","n","i","s","h","e","d">>
FailedKw == <<"F","a","i","l","e","d">>
DeactivatedKw == <<"D","e","a","c","t","i","v","a","t","e","d">>
SystemdName == <<"s","y","s","t","e","m","d">>
SystemdBracket == <<"s","y","s","t","e","m","d","[">>
LBracket == <<"[">>
RBracketColon == <<"]",":">>
RBracketColonSp == <<"]",":"," ">>
ColonSp == <<":"," ">>
Space == <<" ">>
TwoSpaces == <<" "," ">>
Tab == <<"\t">>
NL == <<"\n">>
TwoNL == <<"\n","\n">>
StartingSp == <<"S","t","a","r","t","i","n","g"," ">>
StartedSp == <<"S","t","a","r","t","e","d"," ">>
StoppingSp == <<"S","t","o","p","p","i","n","g"," ">>
StoppedSp == <<"S","t","o","p","p","e","d"," ">>
DeactivatedSp == <<"D","e","a","c","t","i","v","a","t","e","d"," ">>
FinishedSp == <<"F","i","n","i","s","h","e","d"," ">>
FailedSp == <<"F","a","i","l","e","d"," ">>
TriggeringKw == <<"T","r","i","g","g","e","r","i","n","g">>
ConsumedKw == <<"C","o","n","s","u","m","e","d">>
MemoryPeakKw == <<"m","e","m","o","r","y"," ","p","e","a","k">>
FailedWithResultKw == <<"F","a","i","l","e","d"," ","w","i","t","h"," ","r","e","s","u","l",
    "t">>
ControlProcessExitedKw == <<"C","o","n","t","r","o","l"," ","p","r","o","c","e","s","s"," ",
    "e","x","i","t","e","d">>
OutputTruncatedMsg == <<".",".",".","(","o","u","t","p","u","t"," ","t","r","u","n","c","a",
    "t","e","d",")","\n","\n">>

DefaultMaxOutputSize == 2500

(***************************************************************************)
(* Inputs: service names, command names and journal lines.                 *)
(***************************************************************************)
SvcX == <<"x",".","s","e","r","v","i","c","e">>
SvcMyX == <<"m","y","-","x",".","s","e","r","v","i","c","e">>
CmdMyapp == <<"m","y","a","p","p">>
LineStartX == <<"J","u","n"," ","1"," ","0","0",":","0","0",":","0","0"," ","h"," ","s","y",
    "s","t","e","m","d","[","1","]",":"," ","S","t","a","r","t","i","n","g"," ","x",".","s",
    "e","r","v","i","c","e">>
LineHello == <<"J","u","n"," ","1"," ","0","0",":","0","0",":","0","1"," ","h"," ","m","y",
    "a","p","p","[","9","9","]",":"," ","h","e","l","l","o">>
LineFinishedX == <<"J","u","n"," ","1"," ","0","0",":","0","0",":","0","2"," ","h"," ","s",
    "y","s","t","e","m","d","[","1","]",":"," ","F","i","n","i","s","h","e","d"," ","x",".",
    "s","e","r","v","i","c","e">>
LineStartMyX == <<"h"," ","s","y","s","t","e","m","d","[","1","]",":"," ","S","t","a","r",
    "t","i","n","g"," ","m","y","-","x",".","s","e","r","v","i","c","e">>
LineSepStartX == <<"-","-"," ","S","t","a","r","t","i","n","g"," ","x",".","s","e","r","v",
    "i","c","e"," ","-","-">>
LineSelfStartX == <<"h"," ","t","e","l","e","g","r","a","m","-","n","o","t","i","f","i","e",
    "r","[","7","]",":"," ","S","t","a","r","t","i","n","g"," ","x",".","s","e","r","v","i",
    "c","e">>
LineMainExit == <<"h"," ","s","y","s","t","e","m","d","[","1","]",":"," ","x",".","s","e",
    "r","v","i","c","e",":"," ","M","a","i","n"," ","p","r","o","c","e","s","s"," ","e","x",
    "i","t","e","d">>
LineIndented == <<" "," ","a","t"," ","s","t","e","p"," ","2">>
LinePlain == <<"d","o","n","e">>
LineEmpty == << >>
MsgStartingX == <<"S","t","a","r","t","i","n","g"," ","x",".","s","e","r","v","i","c","e">>
MsgFinishedX == <<"F","i","n","i","s","h","e","d"," ","x",".","s","e","r","v","i","c","e">>
MsgHello == <<"h","e","l","l","o">>

JournalLines ==
    {LineStartX, LineHello, LineFinishedX, LineStartMyX, LineSepStartX,
     LineSelfStartX, LineMainExit, LineIndented, LinePlain, LineEmpty}

\* the longest window, in lines
MaxLines == 3

\* a small configured NOTIFIER_MAX_OUTPUT_SIZE, so that truncation happens
SmallOutputSize == 30

Windows == UNION {[1..n -> JournalLines] : n \in 0..MaxLines}

(***************************************************************************)
(* Inputs: the texts handed to FilterSecrets, made of a few pieces.        *)
(***************************************************************************)
TokPassword == <<"p","a","s","s","w","o","r","d">>
TokEquals == <<"=">>
TokValue == <<"a","b","c","d","e","f","1","2","3","4","5","6","7","8","9","0","Z","Z","Z",
    "Z">>
\* with "password=" a match of exactly RedactKeep characters
TokHelloWorld == <<"h","e","l","l","o","-","w","o","r","l","d">>
TokToken == <<"t","o","k","e","n">>
TokBearer == <<"B","e","a","r","e","r">>

FilterTokens == {TokPassword, TokEquals, Space, TokValue, TokHelloWorld, TokToken, TokBearer}

\* the longest text, in pieces
MaxTokens == 3

RECURSIVE Concat(_)
Concat(pieces) == IF pieces = << >> THEN << >> ELSE Head(pieces) \o Concat(Tail(pieces))

FilterInputs == {Concat(p) : p \in UNION {[1..n -> FilterTokens] : n \in 0..MaxTokens}}

\* the messages of the errors handed to SanitizeErrorMessage: paths, in pieces
PathEtc == <<"/","e","t","c","/","s","y","s","t","e","m","d","/">>
PathEtcTail == <<"e","t","c","/","s","y","s","t","e","m","d","/">>
PathUsrLib == <<"/","u","s","r","/","l","i","b","/","s","y","s","t","e","m","d","/">>
PathLib == <<"/","l","i","b","/","s","y","s","t","e","m","d","/">>
HomeU == <<"/","h","o","m","e","/","u">>

PathPieces == {PathEtc, PathEtcTail, PathUsrLib, PathLib, HomeU, SvcX}

\* the longest message, in pieces
MaxPathPieces == 3

PathMessages == {Concat(p) : p \in UNION {[1..n -> PathPieces] : n \in 0..MaxPathPieces}}

\* os.UserHomeDir(): "" when it fails
HomeDirs == {<< >>, HomeU}

\* the messages of the errors handed to FilterSecretsFromError
ErrorMessages ==
    {<< >>, TokHelloWorld, Concat(<<TokPassword, TokEquals, TokValue>>),
     Concat(<<TokBearer, Space, TokValue>>)}

(***************************************************************************)
(* Inputs: the messages and sizes handed to TruncateMessage.  A message is *)
(* a run of "a" about as long as the truncation marker and a tail of a few *)
(* bytes, among them the two bytes of U+00E9, in any order.                *)
(***************************************************************************)
TruncBytes == {"a", "xC3", "xA9"}

\* the longest tail, in bytes
MaxTail == 3

TruncTails == UNION {[1..n -> TruncBytes] : n \in 0..MaxTail}

TruncMessages ==
    {[i \in 1..n |-> "a"] \o t :
        n \in (Len(OutputTruncatedMsg) - 1)..(Len(OutputTruncatedMsg) + 1), t \in TruncTails}

\* maxSize: negative, too small for the marker, and about the size of the messages
TruncSizes == (-1..1) \cup (Len(OutputTruncatedMsg)..(Len(OutputTruncatedMsg) + MaxTail))

(***************************************************************************)
(* internal/systemd/journal.go: the structured classifier.                 *)
(***************************************************************************)
\* extractProcessName: the text between the last space before the first "["
\* and that "[", when a "]:" follows
extractProcessName(line) ==
    LET idx == Index(line, LBracket)
    IN  IF idx > 0
        THEN LET beforeBracket == Slice(line, 0, idx)
                 lastSpace == LastIndex(beforeBracket, Space)
             IN  IF lastSpace # -1 /\ Index(SliceFrom(line, idx), RBracketColon) > 0
                 THEN SliceFrom(beforeBracket, lastSpace + 1)
                 ELSE << >>
        ELSE << >>

\* extractMessage, last rule: indented continuation lines are kept whole,
\* anything else has no message
indentedOrEmpty(line) ==
    IF HasPrefix(line, TwoSpaces) \/ HasPrefix(line, Tab) THEN line ELSE << >>

\* extractMessage, "field: message" rule once 3 or more spaces precede the
\* first ": ": the text after the first ": " at or after the first occurrence
\* of the fourth field; found is FALSE when the rule yields nothing
alternativeFormat(line) ==
    LET parts == Fields(line)
    IN  IF Len(parts) > 3
        THEN LET remaining == SliceFrom(line, Index(line, parts[4]))
                 colonIdx == Index(remaining, ColonSp)
             IN  IF colonIdx # -1
                 THEN [found |-> TRUE, msg |-> SliceFrom(remaining, colonIdx + 2)]
                 ELSE [found |-> FALSE, msg |-> << >>]
        ELSE [found |-> FALSE, msg |-> << >>]

\* mutant: the prefix of the line is not stripped
extractMessage_WholeLine(line) == line

extractMessage(line) ==
    IF line = << >> THEN << >>
    ELSE IF Index(line, RBracketColonSp) # -1
    THEN SliceFrom(line, Index(line, RBracketColonSp) + 3)
    ELSE IF Index(line, ColonSp) # -1
            /\ CountChar(Slice(line, 0, Index(line, ColonSp)), " ") < 3
    THEN line
    ELSE IF Index(line, ColonSp) # -1 /\ alternativeFormat(line).found
    THEN alternativeFormat(line).msg
    ELSE indentedOrEmpty(line)

\* mutant: only separator lines are skipped
isSkippedJournalLine_SeparatorOnly(line) == HasPrefix(line, SepPrefix)

\* separator lines and the notifier's own logs are skipped before anything else
isSkippedJournalLine(line) == HasPrefix(line, SepPrefix) \/ Contains(line, SelfName)

\* the start of an execution of the service
isServiceStart(line, serviceName) ==
    Contains(line, StartingKw) /\ Contains(line, serviceName)

\* mutant: a service start does not clear the captured output
resetState_KeepOutput(st) ==
    [st EXCEPT !.foundStart = TRUE, !.SystemdLogs = << >>,
               !.lastProcessName = << >>, !.inCommandOutput = FALSE]

\* the state a service start leaves
resetState(st) ==
    [st EXCEPT !.foundStart = TRUE, !.SystemdLogs = << >>, !.ExecutionResults = << >>,
               !.lastProcessName = << >>, !.inCommandOutput = FALSE]

\* mutant: lines before the service start are processed too
beforeStart_Never(st) == FALSE

\* lines before the service start are not processed
beforeStart(st) == ~st.foundStart

isSystemdProcess(processName) ==
    processName = SystemdName \/ Contains(processName, SystemdBracket)

\* mutant: "Finished" is missing from the lifecycle keywords
isLifecycleMessage_NoFinished(msg) ==
    \/ Contains(msg, StartingKw)
    \/ Contains(msg, StartedKw)
    \/ Contains(msg, FailedKw)
    \/ Contains(msg, DeactivatedKw)

isLifecycleMessage(msg) ==
    \/ Contains(msg, StartingKw)
    \/ Contains(msg, StartedKw)
    \/ Contains(msg, FinishedKw)
    \/ Contains(msg, FailedKw)
    \/ Contains(msg, DeactivatedKw)

\* mutant: a lifecycle message is recorded as output as well
recordLifecycle_AlsoOutput(st, msg) ==
    [st EXCEPT !.SystemdLogs = Append(@, msg), !.ExecutionResults = Append(@, msg),
               !.inCommandOutput = FALSE]

\* a lifecycle message of systemd
recordLifecycle(st, msg) ==
    [st EXCEPT !.SystemdLogs = Append(@, msg), !.inCommandOutput = FALSE]

\* a line of a process other than systemd
recordOutput(st, processName, msg) ==
    IF msg = << >> /\ st.inCommandOutput
    THEN [st EXCEPT !.ExecutionResults = Append(@, << >>), !.lastProcessName = processName]
    ELSE IF msg # << >>
    THEN [st EXCEPT !.ExecutionResults = Append(@, msg), !.inCommandOutput = TRUE,
                    !.lastProcessName = processName]
    ELSE [st EXCEPT !.lastProcessName = processName]

\* mutant: a line without process name is output whatever the last process was
recordContinuation_Unguarded(st, msg) ==
    [st EXCEPT !.ExecutionResults = Append(@, msg), !.inCommandOutput = TRUE]

\* a line without process name
recordContinuation(st, msg) ==
    IF st.lastProcessName # << >> /\ st.lastProcessName # SystemdName
    THEN [st EXCEPT !.ExecutionResults = Append(@, msg), !.inCommandOutput = TRUE]
    ELSE st

\* the categorization of a line after the service start
categorizeLine(line, st) ==
    LET processName == extractProcessName(line)
        msg == extractMessage(line)
    IN  IF isSystemdProcess(processName)
        THEN IF isLifecycleMessage(msg) THEN recordLifecycle(st, msg) ELSE st
        ELSE IF processName # << >> /\ processName # SystemdName
        THEN recordOutput(st, processName, msg)
        ELSE recordContinuation(st, msg)

\* mutant: the return after the reset is missing, the start line is categorized
processJournalLine_StartFallsThrough(line, serviceName, st) ==
    IF isSkippedJournalLine(line) THEN st
    ELSE IF isServiceStart(line, serviceName) THEN categorizeLine(line, resetState(st))
    ELSE IF beforeStart(st) THEN st
    ELSE categorizeLine(line, st)

processJournalLine(line, serviceName, st) ==
    IF isSkippedJournalLine(line) THEN st
    ELSE IF isServiceStart(line, serviceName) THEN resetState(st)
    ELSE IF beforeStart(st) THEN st
    ELSE categorizeLine(line, st)

(***************************************************************************)
(* internal/validation/validation.go: TruncateMessage.  A string is its    *)
(* bytes; a byte that is not ASCII is written by its hexadecimal name.     *)
(* The model knows the bytes of U+00E9 (C3 A9) and of U+FFFD (EF BF BD).   *)
(***************************************************************************)
LeadOfTwo == {"xC3"}

LeadOfThree == {"xEF"}

Continuation == {"xA9", "xBF", "xBD"}

\* the "�" TruncateMessage hands to strings.ToValidUTF8
ReplacementChar == <<"xEF", "xBF", "xBD">>

\* utf8.DecodeRuneInString(s[i:]): the width of the rune at offset i, 0 for an
\* invalid byte (Go returns RuneError with width 1)
runeWidth(s, i) ==
    IF s[i + 1] \in LeadOfTwo
    THEN IF i + 1 < Len(s) /\ s[i + 2] \in Continuation THEN 2 ELSE 0
    ELSE IF s[i + 1] \in LeadOfThree
    THEN IF i + 2 < Len(s) /\ s[i + 2] \in Continuation /\ s[i + 3] \in Continuation
         THEN 3 ELSE 0
    ELSE IF s[i + 1] \in Continuation THEN 0
    ELSE 1

\* strings.ToValidUTF8 decodes from the left and goes on by one byte after an
\* invalid one, so a byte that is no continuation always starts a rune: the
\* byte at offset i is part of a valid rune when one starts there or at most
\* two bytes before it and reaches it
inValidRune(s, i) ==
    \/ runeWidth(s, i) # 0
    \/ i >= 1 /\ runeWidth(s, i - 1) >= 2
    \/ i >= 2 /\ runeWidth(s, i - 2) = 3

\* what strings.ToValidUTF8 writes for the byte at offset i: the byte, or the
\* replacement for the first byte of a run of invalid ones
toValidByte(s, replacement, i) ==
    IF inValidRune(s, i) THEN <<s[i + 1]>>
    ELSE IF i >= 1 /\ ~inValidRune(s, i - 1) THEN << >>
    ELSE replacement

RECURSIVE toValidRange(_, _, _, _)
\* strings.ToValidUTF8's output for s[a:b], put together by halves
toValidRange(s, replacement, a, b) ==
    IF b <= a THEN << >>
    ELSE IF b = a + 1 THEN toValidByte(s, replacement, a)
    ELSE toValidRange(s, replacement, a, (a + b) \div 2)
             \o toValidRange(s, replacement, (a + b) \div 2, b)

\* strings.ToValidUTF8(s, replacement): every run of invalid bytes becomes one
\* replacement
ToValidUTF8(s, replacement) == toValidRange(s, replacement, 0, Len(s))

\* TruncateMessage for maxSize >= 0; with maxSize < 0 msg[:maxSize] panics
TruncateMessage(msg, maxSize) ==
    IF Len(msg) <= maxSize THEN msg
    ELSE LET availableSize == maxSize - Len(OutputTruncatedMsg)
         IN  IF availableSize <= 0 THEN Slice(msg, 0, maxSize)
             ELSE ToValidUTF8(OutputTruncatedMsg \o SliceFrom(msg, Len(msg) - availableSize),
                              ReplacementChar)

\* msg[:maxSize] is reached with a negative maxSize: slice bounds out of range
truncatePanics(msg, maxSize) ==
    Len(msg) > maxSize /\ maxSize - Len(OutputTruncatedMsg) <= 0 /\ maxSize < 0

(***************************************************************************)
(* internal/systemd/journal.go: the degraded ("cat" format) classifier.    *)
(***************************************************************************)
systemdMessages ==
    {StartingSp, StartedSp, StoppingSp, StoppedSp, DeactivatedSp, SystemdBracket,
     TriggeringKw, ConsumedKw, MemoryPeakKw, FailedWithResultKw, ControlProcessExitedKw}

shouldSkipLine(line, serviceName) ==
    LET trimmedLine == TrimSpace(line)
    IN  IF HasPrefix(trimmedLine, SepPrefix) THEN [skip |-> TRUE, reset |-> FALSE]
        ELSE IF trimmedLine # << >> /\ Contains(trimmedLine, StartingSp)
                /\ Contains(trimmedLine, serviceName)
        THEN [skip |-> FALSE, reset |-> TRUE]
        ELSE IF trimmedLine # << >>
                /\ (\/ Contains(trimmedLine, SelfName)
                    \/ (Contains(trimmedLine, FinishedSp) /\ Contains(trimmedLine, serviceName))
                    \/ (Contains(trimmedLine, FailedSp) /\ Contains(trimmedLine, serviceName)))
        THEN [skip |-> TRUE, reset |-> FALSE]
        ELSE IF trimmedLine # << >> /\ \E m \in systemdMessages : Contains(trimmedLine, m)
        THEN [skip |-> TRUE, reset |-> FALSE]
        ELSE [skip |-> FALSE, reset |-> FALSE]

\* the state a service start leaves in the degraded classifier
simpleResetState ==
    [commandOutput |-> << >>, captureOutput |-> TRUE, serviceStartSeen |-> TRUE]

\* one iteration of processSimpleOutput's loop
simpleLine(line, serviceName, cmd, st) ==
    LET sr == shouldSkipLine(line, serviceName)
    IN  IF sr.reset THEN simpleResetState
        ELSE IF sr.skip
        THEN IF Contains(line, FinishedKw) \/ Contains(line, FailedKw)
             THEN [st EXCEPT !.captureOutput = FALSE]
             ELSE st
        ELSE IF st.captureOutput
        THEN [st EXCEPT !.commandOutput = Append(@, line)]
        ELSE IF ~st.serviceStartSeen /\ cmd # << >> /\ Contains(line, cmd)
        THEN [st EXCEPT !.commandOutput = Append(@, line), !.captureOutput = TRUE]
        ELSE st

\* what processSimpleOutput returns once the loop is over
simpleResult(out, maxOutputSize) ==
    IF Len(out) > 0
    THEN TruncateMessage(TrimSuffix(TrimPrefix(Join(out, NL), TwoNL), TwoNL), maxOutputSize)
    ELSE << >>

(***************************************************************************)
(* Regular expressions as the code uses them (Go's regexp: leftmost match, *)
(* earlier alternatives and longer repetitions preferred).  A pattern is a *)
(* tree of character sets, concatenations, alternations and greedy         *)
(* repetitions; max = -1 is "no upper limit".                              *)
(***************************************************************************)
RedactedMarker == <<"[","R","E","D","A","C","T","E","D","]">>
LowerSeq == <<"a","b","c","d","e","f","g","h","i","j","k","l","m","n","o","p","q","r","s",
    "t","u","v","w","x","y","z">>
UpperSeq == <<"A","B","C","D","E","F","G","H","I","J","K","L","M","N","O","P","Q","R","S",
    "T","U","V","W","X","Y","Z">>
DigitSeq == <<"0","1","2","3","4","5","6","7","8","9">>
PunctSeq == <<" ","\t","\n","\r","=",":","'","\"","-","_",".","~","+","/","@","[","]","(",
    ")",",",";","!","?","#","$","%","&","*","<",">","{","}","|","\\","^">>

SeqToSet(s) == {s[k] : k \in 1..Len(s)}

Lower == SeqToSet(LowerSeq)

Upper == SeqToSet(UpperSeq)

Digits == SeqToSet(DigitSeq)

\* every character of the texts of the model
Alphabet == Lower \cup Upper \cup Digits \cup SeqToSet(PunctSeq)

\* \s
ReSpace == {" ", "\t", "\n", "\r"}

\* (?i): a character with its other case
fold(c) ==
    {c} \cup {UpperSeq[k] : k \in {j \in 1..26 : LowerSeq[j] = c}}
        \cup {LowerSeq[k] : k \in {j \in 1..26 : UpperSeq[j] = c}}

foldSet(S) == UNION {fold(c) : c \in S}

reSet(S) == [op |-> "set", chars |-> S]

reNot(S) == [op |-> "set", chars |-> Alphabet \ S]

reCat(parts) == [op |-> "cat", parts |-> parts]

reAlt(parts) == [op |-> "alt", parts |-> parts]

reRep(arg, min, max) == [op |-> "rep", arg |-> arg, min |-> min, max |-> max]

rePlus(arg) == reRep(arg, 1, -1)

reStar(arg) == reRep(arg, 0, -1)

reOpt(arg) == reRep(arg, 0, 1)

\* a literal, case-sensitive
reLit(str) == reCat([k \in 1..Len(str) |-> reSet({str[k]})])

\* a literal under (?i)
reLitI(str) == reCat([k \in 1..Len(str) |-> reSet(fold(str[k]))])

RECURSIVE reEnds(_, _, _)
RECURSIVE reFlatEnds(_, _, _)
RECURSIVE reCatEnds(_, _, _, _)
RECURSIVE reAltEnds(_, _, _, _)
RECURSIVE reRepEnds(_, _, _, _, _)
RECURSIVE reRepFlat(_, _, _, _, _)

\* the positions after the matches of re that begin at position i of s (1-based),
\* in the order of preference of the matcher
reEnds(re, s, i) ==
    CASE re.op = "set" -> IF i <= Len(s) /\ s[i] \in re.chars THEN <<i + 1>> ELSE << >>
      [] re.op = "cat" -> reCatEnds(re.parts, 1, s, <<i>>)
      [] re.op = "alt" -> reAltEnds(re.parts, 1, s, i)
      [] re.op = "rep" -> reRepEnds(re.arg, re.min, re.max, s, i)

reFlatEnds(re, s, starts) ==
    IF starts = << >> THEN << >>
    ELSE reEnds(re, s, Head(starts)) \o reFlatEnds(re, s, Tail(starts))

reCatEnds(parts, k, s, starts) ==
    IF k > Len(parts) \/ starts = << >> THEN starts
    ELSE reCatEnds(parts, k + 1, s, reFlatEnds(parts[k], s, starts))

reAltEnds(parts, k, s, i) ==
    IF k > Len(parts) THEN << >>
    ELSE reEnds(parts[k], s, i) \o reAltEnds(parts, k + 1, s, i)

reRepFlat(arg, min, max, s, starts) ==
    IF starts = << >> THEN << >>
    ELSE reRepEnds(arg, min, max, s, Head(starts)) \o reRepFlat(arg, min, max, s, Tail(starts))

reRepEnds(arg, min, max, s, i) ==
    LET Advances(e) == e > i
        once == IF max = 0 THEN << >> ELSE SelectSeq(reEnds(arg, s, i), Advances)
        more == reRepFlat(arg, IF min > 0 THEN min - 1 ELSE 0,
                          IF max > 0 THEN max - 1 ELSE max, s, once)
    IN  IF min > 0 THEN more ELSE more \o <<i>>

\* re matches s somewhere
reMatches(re, s) == \E i \in 1..Len(s) : reEnds(re, s, i) # << >>

(***************************************************************************)
(* internal/constants/constants.go: SecretPatterns.                        *)
(***************************************************************************)
\* [\s:=]+['"]?([^\s'"]+)
reAssignedValue ==
    <<rePlus(reSet(ReSpace \cup {":", "="})), reOpt(reSet({"'", "\""})),
      rePlus(reNot(ReSpace \cup {"'", "\""}))>>

\* [_-]?
reOptJoin == reOpt(reSet({"_", "-"}))

reAlnum == reSet(Lower \cup Upper \cup Digits)

\* (?i)(password|passwd|pwd)[\s:=]+['"]?([^\s'"]+)
PatPassword ==
    reCat(<<reAlt(<<reLitI(<<"p","a","s","s","w","o","r","d">>),
            reLitI(<<"p","a","s","s","w","d">>),
            reLitI(<<"p","w","d">>)>>)>> \o reAssignedValue)

\* (?i)(api[_-]?key|apikey)[\s:=]+['"]?([^\s'"]+)
PatApiKey ==
    reCat(<<reAlt(<<reCat(<<reLitI(<<"a","p","i">>), reOptJoin, reLitI(<<"k","e","y">>)>>),
            reLitI(<<"a","p","i","k","e","y">>)>>)>>
          \o reAssignedValue)

\* (?i)(secret|token)[\s:=]+['"]?([^\s'"]+)
PatSecretToken == reCat(<<reAlt(<<reLitI(<<"s","e","c","r","e","t">>),
        reLitI(<<"t","o","k","e","n">>)>>)>> \o reAssignedValue)

\* (?i)(auth[_-]?token)[\s:=]+['"]?([^\s'"]+)
PatAuthToken == reCat(<<reLitI(<<"a","u","t","h">>), reOptJoin,
        reLitI(<<"t","o","k","e","n">>)>> \o reAssignedValue)

\* (?i)bearer\s+([a-zA-Z0-9\-._~+/]+=*)
PatBearer ==
    reCat(<<reLitI(<<"b","e","a","r","e","r">>), rePlus(reSet(ReSpace)),
            rePlus(reSet(Lower \cup Upper \cup Digits \cup {"-", ".", "_", "~", "+", "/"})),
            reStar(reSet({"="}))>>)

\* -----BEGIN\s+(?:RSA|DSA|EC|OPENSSH|ENCRYPTED)?\s*PRIVATE\s+KEY-----
PatPrivateKey ==
    reCat(<<reLit(<<"-","-","-","-","-","B","E","G","I","N">>), rePlus(reSet(ReSpace)),
            reOpt(reAlt(<<reLit(<<"R","S","A">>), reLit(<<"D","S","A">>),
                    reLit(<<"E","C">>), reLit(<<"O","P","E","N","S","S","H">>),
                          reLit(<<"E","N","C","R","Y","P","T","E","D">>)>>)),
            reStar(reSet(ReSpace)), reLit(<<"P","R","I","V","A","T","E">>),
                    rePlus(reSet(ReSpace)), reLit(<<"K","E","Y","-","-","-","-","-">>)>>)

\* (?i)(aws_secret_access_key|aws_access_key_id)[\s:=]+['"]?([^\s'"]+)
PatAws ==
    reCat(<<reAlt(<<reLitI(<<"a","w","s","_","s","e","c","r","e","t","_","a","c","c","e","s","s","_","k","e","y">>),
            reLitI(<<"a","w","s","_","a","c","c","e","s","s","_","k","e","y","_","i","d">>)>>)>>
          \o reAssignedValue)

\* (?i)(gcp|google)[-_]?(service[-_]?account|credentials)[\s:=]+['"]?([^\s'"]+)
PatGcp ==
    reCat(<<reAlt(<<reLitI(<<"g","c","p">>), reLitI(<<"g","o","o","g","l","e">>)>>),
            reOptJoin,
            reAlt(<<reCat(<<reLitI(<<"s","e","r","v","i","c","e">>), reOptJoin,
                    reLitI(<<"a","c","c","o","u","n","t">>)>>),
                    reLitI(<<"c","r","e","d","e","n","t","i","a","l","s">>)>>)>> \o reAssignedValue)

\* (?i)(azure|az)[-_]?(key|secret|token)[\s:=]+['"]?([^\s'"]+)
PatAzure ==
    reCat(<<reAlt(<<reLitI(<<"a","z","u","r","e">>), reLitI(<<"a","z">>)>>), reOptJoin,
            reAlt(<<reLitI(<<"k","e","y">>), reLitI(<<"s","e","c","r","e","t">>),
                    reLitI(<<"t","o","k","e","n">>)>>)>> \o reAssignedValue)

\* (?i)[a-z]+://[^:/@\s]+:([^@/\s]+)@
PatUrlPassword ==
    reCat(<<rePlus(reSet(Lower \cup Upper)), reLit(<<":","/","/">>),
            rePlus(reNot(ReSpace \cup {":", "/", "@"})), reSet({":"}),
            rePlus(reNot(ReSpace \cup {"@", "/"})), reSet({"@"})>>)

\* (?i)(mongodb|postgresql|mysql|redis)://[^\s]+
PatDatabaseUrl ==
    reCat(<<reAlt(<<reLitI(<<"m","o","n","g","o","d","b">>),
            reLitI(<<"p","o","s","t","g","r","e","s","q","l">>),
            reLitI(<<"m","y","s","q","l">>), reLitI(<<"r","e","d","i","s">>)>>),
            reLit(<<":","/","/">>), rePlus(reNot(ReSpace))>>)

\* [A-Za-z0-9_-]{10,}
reJwtPart == reRep(reSet(Lower \cup Upper \cup Digits \cup {"_", "-"}), 10, -1)

\* eyJ[A-Za-z0-9_-]{10,}\.[A-Za-z0-9_-]{10,}\.[A-Za-z0-9_-]{10,}
PatJwt == reCat(<<reLit(<<"e","y","J">>), reJwtPart, reSet({"."}), reJwtPart, reSet({"."}),
        reJwtPart>>)

\* (?i)(gh[pousr]_[A-Za-z0-9]{36,})
PatGitHub ==
    reCat(<<reLitI(<<"g","h">>), reSet(foldSet({"p", "o", "u", "s", "r"})), reSet({"_"}),
            reRep(reAlnum, 36, -1)>>)

\* (?i)(glpat-[A-Za-z0-9\-_]{20,})
PatGitLab ==
    reCat(<<reLitI(<<"g","l","p","a","t","-">>),
            reRep(reSet(Lower \cup Upper \cup Digits \cup {"-", "_"}), 20, -1)>>)

\* (?i)(secret|key|token|password|credential)[\s:=]+['"]?([A-Za-z0-9+/]{32,}={0,2})
PatBase64 ==
    reCat(<<reAlt(<<reLitI(<<"s","e","c","r","e","t">>), reLitI(<<"k","e","y">>),
            reLitI(<<"t","o","k","e","n">>), reLitI(<<"p","a","s","s","w","o","r","d">>),
                    reLitI(<<"c","r","e","d","e","n","t","i","a","l">>)>>),
            rePlus(reSet(ReSpace \cup {":", "="})), reOpt(reSet({"'", "\""})),
            reRep(reSet(Lower \cup Upper \cup Digits \cup {"+", "/"}), 32, -1),
            reRep(reSet({"="}), 0, 2)>>)

\* (?i)(access_token|refresh_token)[\s:=]+['"]?([^\s'"]+)
PatOAuth ==
    reCat(<<reAlt(<<reLitI(<<"a","c","c","e","s","s","_","t","o","k","e","n">>),
            reLitI(<<"r","e","f","r","e","s","h","_","t","o","k","e","n">>)>>)>> \o reAssignedValue)

\* xox[baprs]-[0-9]{10,13}-[0-9]{10,13}-[a-zA-Z0-9]{24,}
PatSlack ==
    reCat(<<reLit(<<"x","o","x">>), reSet({"b", "a", "p", "r", "s"}), reSet({"-"}),
            reRep(reSet(Digits), 10, 13), reSet({"-"}), reRep(reSet(Digits), 10, 13),
            reSet({"-"}), reRep(reAlnum, 24, -1)>>)

\* (?i)(export\s+)?[A-Z_]+_(PASSWORD|SECRET|KEY|TOKEN)=['"]([^'"]+)['"]
PatEnvAssignment ==
    reCat(<<reOpt(reCat(<<reLitI(<<"e","x","p","o","r","t">>), rePlus(reSet(ReSpace))>>)),
            rePlus(reSet(Lower \cup Upper \cup {"_"})), reSet({"_"}),
            reAlt(<<reLitI(<<"P","A","S","S","W","O","R","D">>),
                    reLitI(<<"S","E","C","R","E","T">>), reLitI(<<"K","E","Y">>),
                    reLitI(<<"T","O","K","E","N">>)>>),
            reSet({"="}), reSet({"'", "\""}), rePlus(reNot({"'", "\""})),
            reSet({"'", "\""})>>)

SecretPatterns ==
    <<PatPassword, PatApiKey, PatSecretToken, PatAuthToken, PatBearer, PatPrivateKey,
      PatAws, PatGcp, PatAzure, PatUrlPassword, PatDatabaseUrl, PatJwt, PatGitHub,
      PatGitLab, PatBase64, PatOAuth, PatSlack, PatEnvAssignment>>

(***************************************************************************)
(* internal/validation/validation.go: FilterSecrets.                       *)
(***************************************************************************)
\* how much of a long match is kept
RedactKeep == 20

\* mutant: a match of exactly RedactKeep characters keeps them
redact_KeepsAtBoundary(match) ==
    IF Len(match) >= RedactKeep THEN SubSeq(match, 1, RedactKeep) \o RedactedMarker
    ELSE RedactedMarker

\* mutant: a long match is kept whole in front of the marker
redact_KeepsMatch(match) ==
    IF Len(match) > RedactKeep THEN match \o RedactedMarker ELSE RedactedMarker

\* the replacement of one match
redact(match) ==
    IF Len(match) > RedactKeep THEN SubSeq(match, 1, RedactKeep) \o RedactedMarker
    ELSE RedactedMarker

\* the end of the match the matcher prefers among ends, which are the ends of
\* the matches that begin at position j: 0 when there is none.  No secret
\* pattern matches the empty string.
preferredEnd(ends, j) == IF ends = << >> \/ Head(ends) = j THEN 0 ELSE Head(ends)

\* the position after the match of re that begins at position j of s, 0 when
\* there is none
matchEnd(re, s, j) == preferredEnd(reEnds(re, s, j), j)

\* the least of the positions, 0 when there is none
leftmost(starts) == IF starts = {} THEN 0 ELSE Min(starts)

\* where the leftmost match of re from position i of s on begins, 0 when there
\* is none
nextMatch(re, s, i) == leftmost({j \in i..Len(s) : matchEnd(re, s, j) # 0})

\* pattern.ReplaceAllStringFunc(s, redact) from position i of s on: the matches
\* are found left to right and do not overlap
RECURSIVE replaceAllFrom(_, _, _)
\* the match that begins at j and ends before e is replaced
replaceMatch(re, s, i, j, e) ==
    SubSeq(s, i, j - 1) \o redact(SubSeq(s, j, e - 1)) \o replaceAllFrom(re, s, e)

\* j is where the next match begins
replaceNext(re, s, i, j) ==
    IF j = 0 THEN SubSeq(s, i, Len(s)) ELSE replaceMatch(re, s, i, j, matchEnd(re, s, j))

replaceAllFrom(re, s, i) == replaceNext(re, s, i, nextMatch(re, s, i))

\* mutant: an iteration also trims the text
applyPattern_Trimmed(re, text) == TrimSpace(replaceAllFrom(re, text, 1))

\* one iteration of FilterSecrets's loop
applyPattern(re, text) == replaceAllFrom(re, text, 1)

\* the loop from pattern k on; no pattern matches in an empty text
RECURSIVE filterFrom(_, _)
filterFrom(text, k) ==
    IF k > Len(SecretPatterns) \/ text = << >> THEN text
    ELSE filterFrom(applyPattern(SecretPatterns[k], text), k + 1)

\* mutant: only the first pattern is applied
FilterSecrets_FirstPattern(input) ==
    IF input = << >> THEN input ELSE applyPattern(SecretPatterns[1], input)

FilterSecrets(input) == filterFrom(input, 1)

\* the matches pattern.ReplaceAllStringFunc hands to the replacement func, from
\* position i of s on, in order
RECURSIVE matchesFrom(_, _, _)
matchesNext(re, s, j, e) ==
    IF j = 0 THEN << >> ELSE <<SubSeq(s, j, e - 1)>> \o matchesFrom(re, s, e)

matchesFound(re, s, j) == matchesNext(re, s, j, IF j = 0 THEN 0 ELSE matchEnd(re, s, j))

matchesFrom(re, s, i) == matchesFound(re, s, nextMatch(re, s, i))

\* the calls of the replacement func in one iteration: what it was given and
\* what it returned
replacements(re, text) ==
    LET ms == matchesFrom(re, text, 1)
    IN  [k \in 1..Len(ms) |-> [match |-> ms[k], with |-> redact(ms[k])]]

(***************************************************************************)
(* internal/validation/validation.go: FilterSecretsFromError.  An error is *)
(* nil or carries a message.                                               *)
(***************************************************************************)
NilError == [nil |-> TRUE, msg |-> << >>]

\* mutant: the filtered text is wrapped in a prefix
errorf_Prefixed(msg) == [nil |-> FALSE, msg |-> <<"e","r","r",":"," ">> \o msg]

\* fmt.Errorf("%s", msg), and the errors handed in
errorf(msg) == [nil |-> FALSE, msg |-> msg]

FilterErrors == {NilError} \cup {errorf(m) : m \in ErrorMessages}

(***************************************************************************)
(* internal/validation/validation.go: SanitizeErrorMessage.                *)
(***************************************************************************)
\* strings.ReplaceAll for a non-empty old: the occurrences are found left to
\* right from the 0-based offset i on and do not overlap
RECURSIVE ReplaceAllAt(_, _, _, _)
ReplaceAllAt(s, old, new, i) ==
    IF i + Len(old) > Len(s) THEN SliceFrom(s, i)
    ELSE IF MatchAt(s, old, i) THEN new \o ReplaceAllAt(s, old, new, i + Len(old))
    ELSE <<s[i + 1]>> \o ReplaceAllAt(s, old, new, i + 1)

ReplaceAll(s, old, new) == ReplaceAllAt(s, old, new, 0)

\* the home directory becomes "~" when os.UserHomeDir gave one
replaceHome(msg, home) == IF home # << >> THEN ReplaceAll(msg, home, <<"~">>) ELSE msg

\* what SanitizeErrorMessage does to the filtered message
sanitizePaths(msg, home) ==
    LET mark == <<"[","s","y","s","t","e","m","d","]","/">>
        m1 == ReplaceAll(msg, <<"/","e","t","c","/","s","y","s","t","e","m","d","/">>, mark)
        m2 == ReplaceAll(m1, <<"/","u","s","r","/","l","i","b","/","s","y","s","t","e","m","d","/">>,
                         mark)
        m3 == ReplaceAll(m2, <<"/","l","i","b","/","s","y","s","t","e","m","d","/">>, mark)
    IN  replaceHome(m3, home)

(***************************************************************************)
(* internal/config/config.go, package ratelimit: TokenBucket.              *)
(*                                                                         *)
(* time.Now() is read in ticks, TicksPerSecond of them to the second.  The *)
(* level of the bucket is kept in units of which refillRate make a token,  *)
(* refillRate being the ticks NewTokenBucket's refillRate lasts: elapsed   *)
(* seconds times tokens per second is then the elapsed ticks, in units.    *)
(***************************************************************************)
\* the resolution of the clock
TicksPerSecond == 2

\* constants.RateLimitMaxWaitTime
RateLimitMaxWaitSeconds == 5

MaxWaitTicks == RateLimitMaxWaitSeconds * TicksPerSecond

\* time.After(100 * time.Millisecond): a tenth of a second, in whole ticks
PollTicks == (TicksPerSecond + 9) \div 10

\* NewTokenBucket's arguments: constants.RateLimitRefillRate and
\* constants.CommandRateLimitRefillRate are 1 second; 6 seconds is a rate at which
\* no token comes back within RateLimitMaxWaitTime
RefillSeconds == {1, 6}

\* the largest maxTokens handed to NewTokenBucket
MaxBucketTokens == 2

\* the latest tick at which Wait is entered, and how many times it is
MaxEntryTime == 2

MaxCalls == 3

\* by this tick every Wait has passed its deadline
MaxTime == MaxEntryTime + MaxWaitTicks + 1

\* the goroutines that share the bucket
Callers == {"a", "b"}

\* mutant: refill without the cap
refilled_Uncapped(level, elapsed, cap) == level + elapsed

\* refill: tb.tokens += elapsed * tb.refillRate, capped at tb.maxTokens
refilled(level, elapsed, cap) == IF level + elapsed > cap THEN cap ELSE level + elapsed

\* mutant: refill leaves lastRefill as it was
refillTime_Kept(t, last) == last

\* refill: tb.lastRefill = now
refillTime(t, last) == t

\* mutant: Wait gives up at the deadline, not after it
deadlinePassed_AtDeadline(t, d) == t >= d

\* time.Now().After(deadline)
deadlinePassed(t, d) == t > d

\* mutant: any level above zero counts as a token
hasToken_AnyLevel(level, rate) == level > 0

\* tb.tokens >= 1.0
hasToken(level, rate) == level >= rate

(***************************************************************************)
(* internal/telegram: the delivery client.  A message is known by its      *)
(* length; an error is a record of its kind, the kind of the error it      *)
(* wraps, the HTTP status and the text that came from outside.  The bot    *)
(* token is taken to make a URL that http.NewRequestWithContext accepts.   *)
(***************************************************************************)
TelegramMaxMessageSize == 4096

MaxHTTPRetries == 3

InitialRetryDelaySeconds == 1

MaxRetryDelaySeconds == 10

RetryBackoffFactor == 2

\* the caller of SendNotification
Sender == "a"

\* len(message)
MessageSizes == {1, TelegramMaxMessageSize, TelegramMaxMessageSize + 1}

\* resp.StatusCode
HTTPStatuses == {200, 399, 400, 499, 500}

\* the "description" of the API's answer, or the text of the error of Do
SendTexts == {TokHelloWorld, Concat(<<TokPassword, TokEquals, TokValue>>)}

\* what httpClient.Do gives: an error, or a response with a status
DoOutcomes ==
    {[kind |-> "error", status |-> 0, desc |-> d] : d \in SendTexts}
        \cup {[kind |-> "response", status |-> st, desc |-> d] :
                 st \in HTTPStatuses, d \in SendTexts}

NoError == [kind |-> "nil", inner |-> "", status |-> 0, desc |-> << >>]

\* mutant: a message of TelegramMaxMessageSize bytes is too long
tooLong_AtLimit(size) == size >= TelegramMaxMessageSize

\* ValidateMessageSize: len(msg) > constants.TelegramMaxMessageSize
tooLong(size) == size > TelegramMaxMessageSize

\* mutant: status 400 is not a client error
isClientError_Above400(err) == err.kind = "http" /\ err.status > 400 /\ err.status < 500

\* isClientError: an *HTTPError with a status of 400..499
isClientError(err) == err.kind = "http" /\ err.status >= 400 /\ err.status < 500

\* mutant: the delay grows by InitialRetryDelay with every retry
calculateBackoff_Linear(attempt) == InitialRetryDelaySeconds * attempt

\* calculateBackoff, in seconds
calculateBackoff(attempt) ==
    LET delay == InitialRetryDelaySeconds * RetryBackoffFactor ^ (attempt - 1)
    IN  IF delay > MaxRetryDelaySeconds THEN MaxRetryDelaySeconds ELSE delay

\* what sendRequest returns for what Do gave
sendRequest(outcome, cancelled) ==
    IF outcome.kind = "error"
    THEN IF cancelled
         THEN [kind |-> "request cancelled", inner |-> "context", status |-> 0, desc |-> << >>]
         ELSE [kind |-> "http error", inner |-> "", status |-> 0, desc |-> outcome.desc]
    ELSE IF outcome.status # 200
    THEN [kind |-> "http", inner |-> "", status |-> outcome.status, desc |-> outcome.desc]
    ELSE NoError

\* mutant: the loop gives up one attempt early
lastAttempt_Early(attempt) == attempt >= MaxHTTPRetries - 1

\* the loop's attempt <= constants.MaxHTTPRetries fails after this attempt
lastAttempt(attempt) == attempt >= MaxHTTPRetries

\* fmt.Errorf("failed after %d retries: %w", constants.MaxHTTPRetries, lastErr)
exhausted(lastErr) ==
    [kind |-> "failed after retries", inner |-> lastErr.kind, status |-> lastErr.status,
     desc |-> lastErr.desc]

\* the retry numbers calculateBackoff is tried with
MaxRetryNumber == 6

\* by this tick every call has returned: Wait is over, and so are the retries
MaxSendTime ==
    MaxTime + TicksPerSecond
                  * (calculateBackoff(1) + calculateBackoff(2) + calculateBackoff(3))

RECURSIVE itoa(_)
\* %d of a number that is not negative
itoa(n) ==
    IF n < 10 THEN <<DigitSeq[n + 1]>> ELSE itoa(n \div 10) \o <<DigitSeq[(n % 10) + 1]>>

\* err.Error() of an error sendRequest returns
attemptErrorText(kind, status, desc) ==
    IF kind = "http"
    THEN <<"t","e","l","e","g","r","a","m"," ","A","P","I"," ","e","r","r","o","r"," ","(",
           "s","t","a","t","u","s"," ">> \o itoa(status) \o <<")",":"," ">> \o desc
    ELSE IF kind = "http error"
    THEN <<"h","t","t","p"," ","e","r","r","o","r",":"," ">> \o desc
    ELSE IF kind = "request cancelled"
    THEN <<"r","e","q","u","e","s","t"," ","c","a","n","c","e","l","l","e","d",":"," ",
           "c","o","n","t","e","x","t"," ","c","a","n","c","e","l","e","d">>
    ELSE << >>

\* err.Error() of these errors and of the error that wraps the last of them
errorText(err) ==
    IF err.kind = "failed after retries"
    THEN <<"f","a","i","l","e","d"," ","a","f","t","e","r"," ">> \o itoa(MaxHTTPRetries)
             \o <<" ","r","e","t","r","i","e","s",":"," ">>
             \o attemptErrorText(err.inner, err.status, err.desc)
    ELSE attemptErrorText(err.kind, err.status, err.desc)

(***************************************************************************)
(* cmd/telegram-notifier and internal/notifier: main and                   *)
(* SendServiceNotification.  The formatted message is known by the three   *)
(* texts that come from outside (host, description, body) and by its size; *)
(* an error is known by its text.                                          *)
(***************************************************************************)
MessageSafetyMargin == 500

\* the bytes of the message that are not the host, the service name, the
\* description, the exit code or the body: the template, the status and a date
\* in constants.DefaultDateTimeFormat
FormatFixedBytes == 157 + 12 + 15

\* FilterSecretsFromError, as a function
FilterSecretsFromError(err) == IF err.nil THEN NilError ELSE errorf(FilterSecrets(err.msg))

\* mutant: only the paths are replaced
SanitizeErrorMessage_PathsOnly(err, home) ==
    IF err.nil THEN << >> ELSE sanitizePaths(err.msg, home)

\* SanitizeErrorMessage, as a function
SanitizeErrorMessage(err, home) ==
    IF err.nil THEN << >> ELSE sanitizePaths(FilterSecrets(err.msg), home)

\* strings.ToLower, of ASCII
ToLower(s) ==
    [k \in 1..Len(s) |->
        IF \E j \in 1..26 : UpperSeq[j] = s[k]
        THEN LowerSeq[CHOOSE j \in 1..26 : UpperSeq[j] = s[k]]
        ELSE s[k]]

\* isStatusMessage
isStatusMessage(arg) ==
    \E word \in {<<"s","u","c","c","e","s","s">>, <<"f","a","i","l">>,
                 <<"c","o","m","p","l","e","t","e">>, <<"e","r","r","o","r">>,
                 <<"s","t","a","r","t">>, <<"s","t","o","p">>} :
        Contains(ToLower(arg), word)

\* the description and the custom message parseSystemdMode and parseManualMode
\* take from the arguments that follow the service name
optionalArgs(parser, extra) ==
    IF extra = << >> THEN [desc |-> << >>, custom |-> << >>]
    ELSE IF parser = "parseSystemdMode"
    THEN IF Len(extra) >= 2 THEN [desc |-> extra[1], custom |-> extra[2]]
         ELSE IF isStatusMessage(extra[1]) THEN [desc |-> << >>, custom |-> extra[1]]
         ELSE [desc |-> extra[1], custom |-> << >>]
    ELSE IF isStatusMessage(extra[1])
    THEN [desc |-> IF Len(extra) >= 2 THEN extra[2] ELSE << >>, custom |-> extra[1]]
    ELSE [desc |-> extra[1], custom |-> IF Len(extra) >= 2 THEN extra[2] ELSE << >>]

\* getServiceDescription: what GetServiceInfo gave is used when no description
\* of its own was provided
useProvided(providedDesc, name) == providedDesc # << >> /\ providedDesc # name

\* what getCommandOutput puts before the error of the journal
UnableToRetrieve ==
    <<"U","n","a","b","l","e"," ","t","o"," ","r","e","t","r","i","e","v","e"," ",
      "c","o","m","m","a","n","d"," ","o","u","t","p","u","t",":"," ">>

\* getCommandOutput for a custom message, for an error of the journal and for
\* its output
getCommandOutput(customMessage, output, home, maxSize) ==
    IF customMessage # << >> THEN FilterSecrets(customMessage)
    ELSE IF output.failed
    THEN UnableToRetrieve \o SanitizeErrorMessage(errorf(output.text), home)
    ELSE TruncateMessage(FilterSecrets(output.text), maxSize)

\* formatAndValidateMessage: the body is truncated when the message is longer
\* than TelegramMaxMessageSize - MessageSafetyMargin and the rest leaves room
formatAndValidateMessage(data) ==
    LET maxSize == TelegramMaxMessageSize - MessageSafetyMargin
        headerSize == FormatFixedBytes + Len(data.Hostname) + Len(itoa(data.ProcessExitCode))
                          + Len(data.ServiceName) + Len(data.ServiceDesc)
        allowedMessageSize == maxSize - headerSize
    IN  IF headerSize + Len(data.Message) > maxSize /\ allowedMessageSize > 0
        THEN [data EXCEPT !.Message = TruncateMessage(data.Message, allowedMessageSize)]
        ELSE data

\* len(message) for the message fmt.Sprintf makes of data
messageSize(data) ==
    FormatFixedBytes + Len(data.Hostname) + Len(itoa(data.ProcessExitCode))
        + Len(data.ServiceName) + Len(data.ServiceDesc) + Len(data.Message)

\* a text of n bytes in which no secret pattern has a match
Run(n) == [i \in 1..n |-> "a"]

\* n times the two bytes of U+00E9
RunOfTwoByteRunes(n) == [i \in 1..(2 * n) |-> IF i % 2 = 1 THEN "xC3" ELSE "xA9"]

\* hostnames, descriptions and bodies about as long as the limit of a message
FormatHosts == {Run(1), Run(64)}

FormatDescs == {Run(n) : n \in {0, 11, 3300, 3380, 3399, 3400}}

FormatBodies == {Run(n) : n \in {0, 100, 2500, 4000}} \cup {RunOfTwoByteRunes(2000)}

\* the texts that reach main from outside: arguments, the host's alias, the
\* unit's description, the journal's output and the text of an error
SecretText == Concat(<<TokPassword, TokEquals, TokValue>>)

OutsideTexts == {TokHelloWorld, SecretText}

\* os.Args after the service name: up to two texts, with and without a word
\* of isStatusMessage
ExtraArgs ==
    UNION {[1..n -> {TokHelloWorld, <<"f","a","i","l","e","d"," ">> \o SecretText}] :
              n \in 0..2}

\* the exit code of the unit
ExitCodes == {255}

\* an error with a text from outside, or none
OutsideErrors == {NilError, errorf(SecretText)}

\* the parsers' error for an empty name
InvalidNameError ==
    errorf(<<"i","n","v","a","l","i","d"," ","s","e","r","v","i","c","e"," ","n","a","m","e",
             ":"," ","s","e","r","v","i","c","e"," ","n","a","m","e"," ","c","a","n","n","o",
             "t"," ","b","e"," ","e","m","p","t","y">>)

\* ValidateServiceName's own error for an empty name
ValidateNameError == errorf(<<"s","e","r","v","i","c","e"," ","n","a","m","e"," ","c","a","n","n","o","t"," ","b","e"," ","e","m","p","t","y">>)

\* context.Canceled
CanceledError == errorf(<<"c","o","n","t","e","x","t"," ","c","a","n","c","e","l","e","d">>)

\* what the systemd service gives for a query: an error, or a text
Answers == {[failed |-> f, text |-> t] : f \in BOOLEAN, t \in OutsideTexts}

DescriptionNotAvailable ==
    <<"S","e","r","v","i","c","e"," ","d","e","s","c","r","i","p","t","i","o","n"," ","n","o",
      "t"," ","a","v","a","i","l","a","b","l","e">>

\* NotificationData, with nothing filled in
NoData ==
    [Hostname |-> << >>, ProcessExitCode |-> 0, ServiceName |-> << >>, ServiceDesc |-> << >>,
     Message |-> << >>]

(***************************************************************************)
(* internal/systemd/service.go: the commands and the exit code.  What      *)
(* executeWithRateLimit gives for one scope is an input: an error before   *)
(* the command ran (no command, no token), an error of the command, or its *)
(* output.  executed counts the calls of executor.Execute.                 *)
(***************************************************************************)
ScopeUser == 0
ScopeSystem == 1
ScopeBoth == 2

ExitCodeMin == 0
ExitCodeMax == 255

getScopesToTry(scope) ==
    CASE scope = ScopeUser -> <<TRUE>>
      [] scope = ScopeSystem -> <<FALSE>>
      [] scope = ScopeBoth -> <<TRUE, FALSE>>
      [] OTHER -> <<FALSE>>

RECURSIVE tryScopes(_, _, _, _)
\* the loop over tryScopes in ExecSystemctl and ExecJournalctl, from the k-th
\* scope on
tryScopes(scopes, outcomes, k, lastErr) ==
    IF k > Len(scopes)
    THEN [found |-> FALSE, output |-> << >>, isUser |-> FALSE, lastErr |-> lastErr,
          executed |-> 0]
    ELSE IF outcomes[k].err.nil /\ outcomes[k].output # << >>
    THEN [found |-> TRUE, output |-> outcomes[k].output, isUser |-> scopes[k],
          lastErr |-> lastErr, executed |-> 1]
    ELSE [tryScopes(scopes, outcomes, k + 1, outcomes[k].err) EXCEPT
             !.executed = @ + (IF outcomes[k].executed THEN 1 ELSE 0)]

\* the SystemctlResult ExecSystemctl makes of what the loop found
systemctlResult(scope, tried) ==
    IF tried.found
    THEN [Output |-> tried.output,
          Scope |-> IF tried.isUser THEN ScopeUser ELSE ScopeSystem,
          Error |-> NilError, executed |-> tried.executed]
    ELSE [Output |-> << >>, Scope |-> scope,
          Error |-> FilterSecretsFromError(tried.lastErr), executed |-> tried.executed]

ExecSystemctl(cancelled, scope, outcomes) ==
    IF cancelled
    THEN [Output |-> << >>, Scope |-> ScopeUser,
          Error |-> FilterSecretsFromError(CanceledError), executed |-> 0]
    ELSE systemctlResult(scope, tryScopes(getScopesToTry(scope), outcomes, 1, NilError))

\* what ExecJournalctl returns after the loop
journalctlResult(name, tried) ==
    IF tried.found
    THEN [output |-> tried.output, err |-> NilError, executed |-> tried.executed]
    ELSE IF ~tried.lastErr.nil
    THEN [output |-> << >>,
          err |-> FilterSecretsFromError(
                      errorf(<<"j","o","u","r","n","a","l","c","t","l"," ","f","a","i","l","e","d"," ","f","o","r"," ","'">> \o name
                                 \o <<"'",":"," ">> \o tried.lastErr.msg)),
          executed |-> tried.executed]
    ELSE [output |-> << >>,
          err |-> errorf(<<"n","o"," ","j","o","u","r","n","a","l"," ","o","u","t","p","u","t"," ","f","o","r"," ","'">> \o name \o <<"'">>),
          executed |-> tried.executed]

\* ExecJournalctl; the first error is ctx.Err(), the second ValidateServiceName's
ExecJournalctl(cancelled, nameValid, name, scope, outcomes) ==
    IF cancelled \/ ~nameValid
    THEN [output |-> << >>,
          err |-> FilterSecretsFromError(IF cancelled THEN CanceledError
                                         ELSE ValidateNameError),
          executed |-> 0]
    ELSE journalctlResult(name, tryScopes(getScopesToTry(scope), outcomes, 1, NilError))

\* what GetSystemctlProperty makes of ExecSystemctl's result
propertyValue(property, result) ==
    IF ~result.Error.nil
    THEN [value |-> << >>,
          err |-> FilterSecretsFromError(
                      errorf(<<"g","e","t","t","i","n","g"," ","p","r","o","p","e","r","t","y"," ","'">> \o property
                                 \o <<"'",":"," ">> \o result.Error.msg)),
          executed |-> result.executed]
    ELSE [value |-> TrimPrefix(TrimSpace(result.Output), property \o <<"=">>),
          err |-> NilError, executed |-> result.executed]

GetSystemctlProperty(cancelled, nameValid, property, scope, outcomes) ==
    IF ~nameValid
    THEN [value |-> << >>, err |-> FilterSecretsFromError(ValidateNameError),
          executed |-> 0]
    ELSE propertyValue(property, ExecSystemctl(cancelled, scope, outcomes))

\* the value of a text of digits
RECURSIVE digitsValue(_)
digitsValue(s) ==
    IF s = << >> THEN 0
    ELSE 10 * digitsValue(SubSeq(s, 1, Len(s) - 1))
             + (CHOOSE d \in 0..9 : DigitSeq[d + 1] = s[Len(s)])

\* strconv.Atoi for a text without a sign
Atoi(s) ==
    IF s # << >> /\ \A i \in 1..Len(s) : s[i] \in Digits
    THEN [ok |-> TRUE, n |-> digitsValue(s)]
    ELSE [ok |-> FALSE, n |-> 0]

\* ValidateExitCode(code) == nil
ValidateExitCode(code) == code >= ExitCodeMin /\ code <= ExitCodeMax

PropExecMainStatus == <<"E","x","e","c","M","a","i","n","S","t","a","t","u","s">>
PropExecMainCode == <<"E","x","e","c","M","a","i","n","C","o","d","e">>
PropResult == <<"R","e","s","u","l","t">>
TextSuccess == <<"s","u","c","c","e","s","s">>

\* ExitCodeInfo without ExitStatus and InvocationID: the zero value, and the
\* one GetServiceExitCodeInfo starts from
ZeroExitCodeInfo == [ProcessExitCode |-> 0, ServiceSuccess |-> FALSE, ExitSignal |-> << >>]
DefaultExitCodeInfo == [ZeroExitCodeInfo EXCEPT !.ServiceSuccess = TRUE]

\* GetServiceExitCodeInfo's reading of EXIT_STATUS and SERVICE_RESULT
fromEnvironment(info, env) ==
    LET code == Atoi(env.EXIT_STATUS)
        status == IF env.EXIT_STATUS # << >> /\ code.ok /\ ValidateExitCode(code.n)
                  THEN [info EXCEPT !.ProcessExitCode = code.n,
                                    !.ServiceSuccess = (code.n = 0)]
                  ELSE info
    IN  IF env.SERVICE_RESULT # << >>
        THEN [status EXCEPT !.ServiceSuccess = (env.SERVICE_RESULT = TextSuccess)]
        ELSE status

\* the handler getPropertyHandlers has for a property, applied to its value
getPropertyHandlers(info, property, value) ==
    IF property = PropExecMainStatus
    THEN IF Atoi(value).ok /\ ValidateExitCode(Atoi(value).n)
         THEN [info EXCEPT !.ProcessExitCode = Atoi(value).n]
         ELSE info
    ELSE IF property = PropExecMainCode
    THEN IF value = <<"2">> \/ Contains(value, <<"k","i","l","l","e","d">>)
         THEN [info EXCEPT !.ExitSignal = <<"k","i","l","l","e","d">>]
         ELSE info
    ELSE [info EXCEPT !.ServiceSuccess = (value = TextSuccess)]

\* the properties GetServiceExitCodeInfo asks for; the handlers write different
\* fields, so the order in which the map gives them does not show in the result
ExitCodeProperties == <<PropExecMainStatus, PropExecMainCode, PropResult>>

\* one turn of GetServiceExitCodeInfo's loop: the handler is called when
\* GetSystemctlProperty gave no error
handled(state, property, got) ==
    [info |-> IF got.err.nil THEN getPropertyHandlers(state.info, property, got.value)
              ELSE state.info,
     executed |-> state.executed + got.executed]

RECURSIVE lookUpFrom(_, _, _)
\* the loop over the handlers from the k-th property on
lookUpFrom(state, answers, k) ==
    IF k > Len(ExitCodeProperties) THEN state
    ELSE lookUpFrom(handled(state, ExitCodeProperties[k],
                            GetSystemctlProperty(FALSE, TRUE, ExitCodeProperties[k],
                                                 ScopeBoth, answers[k])),
                    answers, k + 1)

\* what GetServiceExitCodeInfo returns after the loop
exitCodeResult(last) == [info |-> last.info, err |-> NilError, executed |-> last.executed]

\* GetServiceExitCodeInfo; the first error is ValidateServiceName's, the second
\* ctx.Err()
GetServiceExitCodeInfo(cancelled, nameValid, env, answers) ==
    IF ~nameValid \/ cancelled
    THEN [info |-> IF nameValid THEN DefaultExitCodeInfo ELSE ZeroExitCodeInfo,
          err |-> FilterSecretsFromError(IF nameValid THEN CanceledError
                                         ELSE ValidateNameError),
          executed |-> 0]
    ELSE exitCodeResult(lookUpFrom([info |-> fromEnvironment(DefaultExitCodeInfo, env),
                                    executed |-> 0],
                                   answers, 1))

\* what executeWithRateLimit gives for one scope: an error before the command
\* ran, an error of the command, no output, or an output
Refused ==
    [executed |-> FALSE, output |-> << >>,
     err |-> errorf(<<"c","o","m","m","a","n","d"," ","r","a","t","e"," ","l","i","m","i","t"," ","e","x","c","e","e","d","e","d",":"," ","r","a","t","e"," ","l","i","m","i","t"," ","w","a","i","t"," ","t","i","m","e","o","u","t"," ","a","f","t","e","r"," ","5","s">>)]
Failed == [executed |-> TRUE, output |-> << >>, err |-> errorf(<<"e","x","i","t"," ","s","t","a","t","u","s"," ","1">>)]
Ran(output) == [executed |-> TRUE, output |-> output, err |-> NilError]

\* the outcomes for the scopes tried, in order
ScopeOutcomes(outputs) ==
    [1..2 -> {Refused, Failed, Ran(<< >>)} \cup {Ran(o) : o \in outputs}]

Scopes == {ScopeUser, ScopeSystem, ScopeBoth}

\* the output of systemctl show --property=Result
ShowResult == {PropResult \o <<"=">> \o TextSuccess \o <<"\n">>}

\* EXIT_STATUS and SERVICE_RESULT: unset, a code, a code out of range, the name
\* of a signal; unset, "success", "exit-code"
Environments ==
    [EXIT_STATUS : {<< >>, <<"0">>, <<"1">>, <<"2","5","6">>, <<"K","I","L","L">>},
     SERVICE_RESULT : {<< >>, TextSuccess, <<"e","x","i","t","-","c","o","d","e">>}]

\* what the scopes give for the three properties GetServiceExitCodeInfo asks for
PropertyAnswers ==
    {<<status, code, result>> :
        status \in {<<Failed, Failed>>, <<Failed, Ran(<< >>)>>,
                    <<Ran(PropExecMainStatus \o <<"=","0","\n">>), Failed>>},
        code \in {<<Ran(PropExecMainCode \o <<"=","1","\n">>), Failed>>,
                  <<Failed, Ran(PropExecMainCode \o <<"=","2","\n">>)>>},
        result \in {<<Failed, Failed>>, <<Failed, Ran(<< >>)>>,
                    <<Ran(PropResult \o <<"=">> \o TextSuccess \o <<"\n">>), Failed>>}}

(***************************************************************************)
(* State.                                                                  *)
(***************************************************************************)
VARIABLES
    mode,              \* "journal": GetCurrentExecutionLogs; "simple": processSimpleOutput
    pc,                \* "loop" while lines are scanned, then "returned"
    lines,             \* strings.Split(raw, "\n")
    serviceName,
    invocationID,      \* INVOCATION_ID of the environment, "" when unset
    pos,               \* the number of lines scanned so far
    SystemdLogs,       \* JournalOutput.SystemdLogs
    ExecutionResults,  \* JournalOutput.ExecutionResults
    foundStart,
    lastProcessName,
    inCommandOutput,
    logsSrc,           \* history: the line number each SystemdLogs entry came from
    execSrc,           \* history: the line number each ExecutionResults entry came from
    execCommand,       \* processSimpleOutput's execCommand, "" when unknown
    maxOutputSize,     \* config.MaxOutputSize: the default, or NOTIFIER_MAX_OUTPUT_SIZE
                       \* as processSimpleOutput reads it
    commandOutput,
    captureOutput,
    serviceStartSeen,
    outSrc,            \* history: the line number each commandOutput entry came from
    result,            \* what processSimpleOutput returned
    fsInput,           \* FilterSecrets's input
    fsResult,          \* FilterSecrets's result, after the patterns applied so far
    fsIdx,             \* the number of patterns FilterSecrets has applied
    fsCall,            \* the function called: "FilterSecrets", "FilterSecretsFromError",
                       \* "SanitizeErrorMessage"
    fsPc,              \* "loop" until the function called returns, then "returned"
    fsErr,             \* the error handed to FilterSecretsFromError
    fsErrOut,          \* the error FilterSecretsFromError returned
    fsReplaced,        \* history: the calls of the replacement func so far
    homeDir,           \* what os.UserHomeDir gives SanitizeErrorMessage, "" on failure
    fsMsg,             \* the string SanitizeErrorMessage returned
    now,               \* time.Now(), in ticks
    tokens,            \* TokenBucket.tokens, in units (refillRate units are a token)
    maxTokens,         \* TokenBucket.maxTokens, in tokens
    refillRate,        \* NewTokenBucket's refillRate, in ticks: the units of a token
    lastRefill,        \* TokenBucket.lastRefill
    mu,                \* TokenBucket.mu: the caller that holds it, "" when free
    wPc,               \* where each caller is: "idle"; in Wait at "lock", "refill",
                       \* "check", "take" (tryTake) or "select"; back from Wait with
                       \* "ok", "cancelled" or "timeout"
    deadline,          \* Wait's deadline of each caller
    wake,              \* when the time.After of each caller's select fires
    ctxDone,           \* ctx.Done() of each caller's context is closed
    calls,             \* history: how many times Wait was entered
    took,              \* history: the tokens each caller's Wait has deducted
    pre,               \* history: the bucket as each caller's tryTake under way found it
    lastTake,          \* history: when the last token was taken, and the level left
    added,             \* history: the units the refills have added
    taken,             \* history: the tokens taken
    tmMsg,             \* TruncateMessage's msg
    tmMax,             \* TruncateMessage's maxSize
    tmPc,              \* "call" until TruncateMessage is over, then "returned" or "panicked"
    tmResult,          \* what TruncateMessage returned
    sPc,               \* SendNotification: "idle"; "wait" in rateLimiter.Wait; "attempt"
                       \* before sendRequest; "request" while httpClient.Do runs;
                       \* "backoff" in the select of a retry; "returned"
    sMsgLen,           \* len(message)
    sCtx,              \* ctx.Done() of SendNotification's context is closed
    attempt,           \* the loop variable
    sWake,             \* when the time.After of the retry's select fires
    lastErr,           \* the error of the last sendRequest
    sErr,              \* what SendNotification returned
    sCalls,            \* history: how many times SendNotification was called
    sAttempts,         \* history: the calls of sendRequest in this call
    sRetryable,        \* history: those that failed with an error that is retried
    sOkAt,             \* history: the number of the attempt that succeeded, 0 for none
    sClientAt,         \* history: the number of the attempt that met a client error
    sSince,            \* history: when Wait returned or the last attempt failed
    sDelays,           \* history: the time that passed before each attempt, in ticks
    sCancel,           \* history: where the call was when its context was cancelled,
                       \* whether the select's timer was pending, the attempts made and
                       \* the tokens taken by then, and the time
    mPc,               \* main: "config", "args", "notify"; in SendServiceNotification
                       \* "description", "output", "format", "send"; "exited"
    mParser,           \* the parser parseCommandLineArgs picks
    mExtra,            \* os.Args after the service name
    mNameValid,        \* ValidateServiceName accepts the service name
    mArgs,             \* serviceDesc and customMessage, as parsed
    mLog,              \* history: what was logged or printed, site by site
    nHost,             \* config.GetHostname()
    nRaw,              \* history: the description and the output as they came in
    nData,             \* NotificationData
    nMessage,          \* history: the message handed to SendNotification
    nQueries,          \* history: the calls of the systemd service
    xPc,               \* "ready" for a call of the systemd service, then "returned"
    xCall,             \* the function called and its arguments
    xResult            \* what it returned

journalVars ==
    <<SystemdLogs, ExecutionResults, foundStart, lastProcessName, inCommandOutput,
      logsSrc, execSrc>>

simpleVars == <<commandOutput, captureOutput, serviceStartSeen, outSrc, result>>

inputVars == <<mode, lines, serviceName, invocationID, execCommand, maxOutputSize>>

filterVars ==
    <<fsInput, fsResult, fsIdx, fsCall, fsPc, fsErr, fsErrOut, fsReplaced, homeDir, fsMsg>>

classifierVars == <<inputVars, pc, pos, journalVars, simpleVars>>

bucketVars == <<tokens, maxTokens, refillRate, lastRefill, mu, added, taken, lastTake>>

waitVars == <<wPc, deadline, wake, ctxDone, calls, took, pre>>

limiterVars == <<now, bucketVars, waitVars>>

truncVars == <<tmMsg, tmMax, tmPc, tmResult>>

\* the variables of the notifier, of the delivery client and of TruncateMessage
sendVars ==
    <<sPc, sMsgLen, sCtx, attempt, sWake, lastErr, sErr, sCalls, sAttempts, sRetryable, sOkAt,
      sClientAt, sSince, sDelays, sCancel>>

notifyVars ==
    <<mPc, mParser, mExtra, mNameValid, mArgs, mLog, nHost, nRaw, nData, nMessage, nQueries>>

systemdVars == <<xPc, xCall, xResult>>

outerVars == <<truncVars, sendVars, notifyVars, systemdVars>>

vars == <<classifierVars, filterVars, limiterVars, outerVars>>

ServiceNames == {SvcX}

InvocationIDs == {<< >>, <<"i","d">>}

ExecCommands == {<< >>, CmdMyapp}

OutputSizes == {SmallOutputSize, DefaultMaxOutputSize}

\* the journal scan state as processJournalLine's arguments
journalState ==
    [SystemdLogs |-> SystemdLogs, ExecutionResults |-> ExecutionResults,
     foundStart |-> foundStart, lastProcessName |-> lastProcessName,
     inCommandOutput |-> inCommandOutput]

simpleState ==
    [commandOutput |-> commandOutput, captureOutput |-> captureOutput,
     serviceStartSeen |-> serviceStartSeen]

\* the history of a sequence that went from old to new while line n was scanned
srcAfter(src, old, new, n) ==
    IF Len(old) <= Len(new) /\ SubSeq(new, 1, Len(old)) = old
    THEN src \o [i \in 1..(Len(new) - Len(old)) |-> n]
    ELSE [i \in 1..Len(new) |-> n]

\* GetCurrentExecutionLogs up to its loop
InitJournal ==
    /\ mode = "journal"
    /\ invocationID \in InvocationIDs
    /\ foundStart = (invocationID # << >>)
    /\ execCommand = << >>
    /\ maxOutputSize = DefaultMaxOutputSize

\* processSimpleOutput up to its loop
InitSimple ==
    /\ mode = "simple"
    /\ invocationID = << >>
    /\ foundStart = FALSE
    /\ execCommand \in ExecCommands
    /\ maxOutputSize = DefaultMaxOutputSize

\* history: no tryTake of the caller is under way
NoBucket == [tokens |-> 0, lastRefill |-> 0]

\* TruncateMessage is not called
TruncateIdle ==
    /\ tmMsg = << >>
    /\ tmMax = 0
    /\ tmPc = "returned"
    /\ tmResult = << >>

\* the context of the call was not cancelled
NotCancelled == [where |-> "", pending |-> FALSE, attempts |-> 0, took |-> 0, time |-> 0]

\* SendNotification is not called
SendIdle ==
    /\ sPc = "idle"
    /\ sMsgLen = 0
    /\ sCtx = FALSE
    /\ sCalls = 0
    /\ sErr = NoError
    /\ sCancel = NotCancelled
    /\ attempt = 0
    /\ sWake = 0
    /\ lastErr = NoError
    /\ sAttempts = 0
    /\ sRetryable = 0
    /\ sOkAt = 0
    /\ sClientAt = 0
    /\ sSince = 0
    /\ sDelays = << >>

\* main is not running
NotifyIdle ==
    /\ mPc = "idle"
    /\ mParser = ""
    /\ mExtra = << >>
    /\ mNameValid = FALSE
    /\ mArgs = [desc |-> << >>, custom |-> << >>]
    /\ mLog = << >>
    /\ nHost = << >>
    /\ nRaw = [desc |-> << >>, output |-> << >>]
    /\ nData = NoData
    /\ nMessage = NoData
    /\ nQueries = << >>

\* no function of the systemd service is called
NoCall == [op |-> ""]

SystemdIdle ==
    /\ xPc = "idle"
    /\ xCall = NoCall
    /\ xResult = NoCall

\* the notifier, the delivery client, TruncateMessage and the systemd service
\* are not running
OuterIdle == TruncateIdle /\ SendIdle /\ NotifyIdle /\ SystemdIdle

\* no bucket is in use
BucketIdle ==
    /\ now = 0
    /\ tokens = 0
    /\ maxTokens = 0
    /\ refillRate = 0
    /\ lastRefill = 0
    /\ mu = ""
    /\ wPc = [c \in Callers |-> "idle"]
    /\ deadline = [c \in Callers |-> 0]
    /\ wake = [c \in Callers |-> 0]
    /\ ctxDone = [c \in Callers |-> FALSE]
    /\ calls = 0
    /\ took = [c \in Callers |-> 0]
    /\ pre = [c \in Callers |-> NoBucket]
    /\ lastTake = [time |-> 0, level |-> 0]
    /\ added = 0
    /\ taken = 0

\* no text is being filtered
FilterIdle ==
    /\ fsInput = << >>
    /\ fsResult = << >>
    /\ fsIdx = 0
    /\ fsCall = "idle"
    /\ fsPc = "returned"
    /\ fsErr = NilError
    /\ fsErrOut = NilError
    /\ fsReplaced = << >>
    /\ homeDir = << >>
    /\ fsMsg = << >>

Init ==
    /\ \E w \in Windows : lines = Split(Join(w, NL), "\n")
    /\ serviceName \in ServiceNames
    /\ InitJournal \/ InitSimple
    /\ pc = "loop"
    /\ pos = 0
    /\ SystemdLogs = << >>
    /\ ExecutionResults = << >>
    /\ lastProcessName = << >>
    /\ inCommandOutput = FALSE
    /\ logsSrc = << >>
    /\ execSrc = << >>
    /\ commandOutput = << >>
    /\ captureOutput = FALSE
    /\ serviceStartSeen = FALSE
    /\ outSrc = << >>
    /\ result = << >>
    /\ FilterIdle
    /\ BucketIdle
    /\ OuterIdle

\* one iteration of GetCurrentExecutionLogs's loop
ProcessJournalLine ==
    /\ mode = "journal"
    /\ pc = "loop"
    /\ pos < Len(lines)
    /\ \E new \in {processJournalLine(lines[pos + 1], serviceName, journalState)} :
           /\ SystemdLogs' = new.SystemdLogs
           /\ ExecutionResults' = new.ExecutionResults
           /\ foundStart' = new.foundStart
           /\ lastProcessName' = new.lastProcessName
           /\ inCommandOutput' = new.inCommandOutput
           /\ logsSrc' = srcAfter(logsSrc, SystemdLogs, new.SystemdLogs, pos + 1)
           /\ execSrc' = srcAfter(execSrc, ExecutionResults, new.ExecutionResults, pos + 1)
    /\ pos' = pos + 1
    /\ UNCHANGED <<inputVars, pc, simpleVars, filterVars, limiterVars, outerVars>>

\* GetCurrentExecutionLogs returns the output
JournalReturn ==
    /\ mode = "journal"
    /\ pc = "loop"
    /\ pos = Len(lines)
    /\ pc' = "returned"
    /\ UNCHANGED <<inputVars, pos, journalVars, simpleVars, filterVars, limiterVars, outerVars>>

\* one iteration of processSimpleOutput's loop
ProcessSimpleLine ==
    /\ mode = "simple"
    /\ pc = "loop"
    /\ pos < Len(lines)
    /\ \E new \in {simpleLine(lines[pos + 1], serviceName, execCommand, simpleState)} :
           /\ commandOutput' = new.commandOutput
           /\ captureOutput' = new.captureOutput
           /\ serviceStartSeen' = new.serviceStartSeen
           /\ outSrc' = srcAfter(outSrc, commandOutput, new.commandOutput, pos + 1)
    /\ pos' = pos + 1
    /\ UNCHANGED <<inputVars, pc, journalVars, result, filterVars, limiterVars, outerVars>>

\* processSimpleOutput joins, trims and truncates what it captured
SimpleReturn ==
    /\ mode = "simple"
    /\ pc = "loop"
    /\ pos = Len(lines)
    /\ \E size \in OutputSizes :
           /\ maxOutputSize' = size
           /\ result' = simpleResult(commandOutput, size)
    /\ pc' = "returned"
    /\ UNCHANGED <<mode, lines, serviceName, invocationID, execCommand, pos, journalVars,
                   commandOutput, captureOutput, serviceStartSeen, outSrc, filterVars,
                   limiterVars, outerVars>>

Next == ProcessJournalLine \/ JournalReturn \/ ProcessSimpleLine \/ SimpleReturn

Spec == Init /\ [][Next]_vars

(***************************************************************************)
(* FilterSecrets on its own: the text is drawn at the start, each step     *)
(* applies the next pattern to the result of the previous one.             *)
(***************************************************************************)
\* no journal is being classified
ClassifierIdle ==
    /\ mode = "idle"
    /\ pc = "returned"
    /\ lines = << >>
    /\ serviceName = SvcX
    /\ invocationID = << >>
    /\ execCommand = << >>
    /\ maxOutputSize = DefaultMaxOutputSize
    /\ pos = 0
    /\ SystemdLogs = << >>
    /\ ExecutionResults = << >>
    /\ foundStart = FALSE
    /\ lastProcessName = << >>
    /\ inCommandOutput = FALSE
    /\ logsSrc = << >>
    /\ execSrc = << >>
    /\ commandOutput = << >>
    /\ captureOutput = FALSE
    /\ serviceStartSeen = FALSE
    /\ outSrc = << >>
    /\ result = << >>

InitFilter ==
    /\ ClassifierIdle
    /\ BucketIdle
    /\ \/ fsCall = "FilterSecrets" /\ fsErr = NilError /\ fsInput \in FilterInputs
       \/ fsCall = "FilterSecretsFromError" /\ fsErr \in FilterErrors /\ fsInput = fsErr.msg
    /\ fsResult = fsInput
    /\ fsIdx = 0
    /\ fsPc = "loop"
    /\ fsErrOut = NilError
    /\ fsReplaced = << >>
    /\ homeDir = << >>
    /\ fsMsg = << >>
    /\ OuterIdle

\* FilterSecrets is running: called directly, or on the message of a non-nil error
filterRunning == fsPc = "loop" /\ (fsCall = "FilterSecrets" \/ ~fsErr.nil)

\* one iteration of FilterSecrets's loop
FilterStep ==
    /\ filterRunning
    /\ fsIdx < Len(SecretPatterns)
    /\ fsResult' = applyPattern(SecretPatterns[fsIdx + 1], fsResult)
    /\ fsReplaced' = fsReplaced \o replacements(SecretPatterns[fsIdx + 1], fsResult)
    /\ fsIdx' = fsIdx + 1
    /\ UNCHANGED <<fsInput, fsCall, fsPc, fsErr, fsErrOut, homeDir, fsMsg, classifierVars,
                   limiterVars, outerVars>>

\* return result
FilterSecretsReturn ==
    /\ fsCall = "FilterSecrets"
    /\ fsPc = "loop"
    /\ fsIdx = Len(SecretPatterns)
    /\ fsPc' = "returned"
    /\ UNCHANGED <<fsInput, fsResult, fsIdx, fsCall, fsErr, fsErrOut, fsReplaced,
                   homeDir, fsMsg, classifierVars, limiterVars, outerVars>>

\* FilterSecretsFromError returns: nil for nil, else an error of the filtered text
FromErrorReturn ==
    /\ fsCall = "FilterSecretsFromError"
    /\ fsPc = "loop"
    /\ IF fsErr.nil THEN fsErrOut' = NilError
       ELSE fsIdx = Len(SecretPatterns) /\ fsErrOut' = errorf(fsResult)
    /\ fsPc' = "returned"
    /\ UNCHANGED <<fsInput, fsResult, fsIdx, fsCall, fsErr, fsReplaced, homeDir, fsMsg,
                   classifierVars, limiterVars, outerVars>>

NextFilter == FilterStep \/ FilterSecretsReturn \/ FromErrorReturn

SpecFilter == InitFilter /\ [][NextFilter]_vars

(***************************************************************************)
(* SanitizeErrorMessage on its own: the error and the home directory are   *)
(* drawn at the start; the message is filtered pattern by pattern, then    *)
(* the paths are replaced.                                                 *)
(***************************************************************************)
InitSanitize ==
    /\ ClassifierIdle
    /\ BucketIdle
    /\ fsCall = "SanitizeErrorMessage"
    /\ fsErr \in {NilError} \cup {errorf(m) : m \in PathMessages}
    /\ homeDir \in HomeDirs
    /\ fsInput = fsErr.msg
    /\ fsResult = fsInput
    /\ fsIdx = 0
    /\ fsPc = "loop"
    /\ fsErrOut = NilError
    /\ fsReplaced = << >>
    /\ fsMsg = << >>
    /\ OuterIdle

\* SanitizeErrorMessage returns: "" for nil, else the filtered message with the
\* paths replaced
SanitizeReturn ==
    /\ fsCall = "SanitizeErrorMessage"
    /\ fsPc = "loop"
    /\ IF fsErr.nil THEN fsMsg' = << >>
       ELSE fsIdx = Len(SecretPatterns) /\ fsMsg' = sanitizePaths(fsResult, homeDir)
    /\ fsPc' = "returned"
    /\ UNCHANGED <<fsInput, fsResult, fsIdx, fsCall, fsErr, fsErrOut, fsReplaced, homeDir,
                   classifierVars, limiterVars, outerVars>>

NextSanitize == FilterStep \/ SanitizeReturn

SpecSanitize == InitSanitize /\ [][NextSanitize]_vars

(***************************************************************************)
(* The TokenBucket on its own: NewTokenBucket's arguments are drawn at the *)
(* start, and the callers enter Wait at the ticks they choose.  A caller   *)
(* takes the steps it can take before the clock ticks: what tryTake and    *)
(* the select do takes no time of the clock's resolution.                  *)
(***************************************************************************)
\* the level of the full bucket, in units
capacity == maxTokens * refillRate

\* NewTokenBucket: a full bucket, last refilled now
InitBucket ==
    /\ ClassifierIdle
    /\ FilterIdle
    /\ now = 0
    /\ maxTokens \in 1..MaxBucketTokens
    /\ refillRate \in {sec * TicksPerSecond : sec \in RefillSeconds}
    /\ tokens = maxTokens * refillRate
    /\ lastRefill = 0
    /\ mu = ""
    /\ wPc = [c \in Callers |-> "idle"]
    /\ deadline = [c \in Callers |-> 0]
    /\ wake = [c \in Callers |-> 0]
    /\ ctxDone = [c \in Callers |-> FALSE]
    /\ calls = 0
    /\ took = [c \in Callers |-> 0]
    /\ pre = [c \in Callers |-> NoBucket]
    /\ lastTake = [time |-> 0, level |-> maxTokens * refillRate]
    /\ added = 0
    /\ taken = 0
    /\ OuterIdle

\* the caller is in Wait
inWait(c) == wPc[c] \in {"lock", "refill", "check", "take", "select"}

\* mutant: the mutex does not exclude
mutexFree_Always == TRUE

\* tb.mu can be locked
mutexFree == mu = ""

\* Wait is entered with a fresh context: deadline := time.Now().Add(RateLimitMaxWaitTime)
WaitEnter(c) ==
    /\ ~inWait(c)
    /\ calls < MaxCalls
    /\ now <= MaxEntryTime
    /\ wPc' = [wPc EXCEPT ![c] = "lock"]
    /\ deadline' = [deadline EXCEPT ![c] = now + MaxWaitTicks]
    /\ ctxDone' = [ctxDone EXCEPT ![c] = FALSE]
    /\ took' = [took EXCEPT ![c] = 0]
    /\ calls' = calls + 1
    /\ UNCHANGED <<now, bucketVars, wake, pre, classifierVars, filterVars, outerVars>>

\* the context of a caller in Wait is cancelled, or its deadline passes
CtxCancel(c) ==
    /\ inWait(c)
    /\ ~ctxDone[c]
    /\ ctxDone' = [ctxDone EXCEPT ![c] = TRUE]
    /\ UNCHANGED <<now, bucketVars, wPc, deadline, wake, calls, took, pre, classifierVars,
                   filterVars, outerVars>>

\* tryTake: tb.mu.Lock()
Lock(c) ==
    /\ wPc[c] = "lock"
    /\ mutexFree
    /\ mu' = c
    /\ pre' = [pre EXCEPT ![c] = [tokens |-> tokens, lastRefill |-> lastRefill]]
    /\ wPc' = [wPc EXCEPT ![c] = "refill"]
    /\ UNCHANGED <<now, tokens, maxTokens, refillRate, lastRefill, added, taken, lastTake,
                   deadline, wake, ctxDone, calls, took, classifierVars, filterVars,
                   outerVars>>

\* tryTake: tb.refill()
Refill(c) ==
    /\ wPc[c] = "refill"
    /\ tokens' = refilled(tokens, now - lastRefill, capacity)
    /\ added' = added + (tokens' - tokens)
    /\ lastRefill' = refillTime(now, lastRefill)
    /\ wPc' = [wPc EXCEPT ![c] = "check"]
    /\ UNCHANGED <<now, maxTokens, refillRate, mu, taken, lastTake, deadline, wake, ctxDone,
                   calls, took, pre, classifierVars, filterVars, outerVars>>

\* tryTake: if tb.tokens >= 1.0; when not, tryTake unlocks and returns false,
\* and Wait's select starts the timer
Check(c) ==
    /\ wPc[c] = "check"
    /\ IF hasToken(tokens, refillRate)
       THEN /\ wPc' = [wPc EXCEPT ![c] = "take"]
            /\ UNCHANGED <<mu, wake, pre>>
       ELSE /\ wPc' = [wPc EXCEPT ![c] = "select"]
            /\ mu' = ""
            /\ wake' = [wake EXCEPT ![c] = now + PollTicks]
            /\ pre' = [pre EXCEPT ![c] = NoBucket]
    /\ UNCHANGED <<now, tokens, maxTokens, refillRate, lastRefill, added, taken, lastTake,
                   deadline, ctxDone, calls, took, classifierVars, filterVars, outerVars>>

\* tryTake: tb.tokens--, unlock and return true; Wait returns nil, and its
\* deadline and context are out of use
Take(c) ==
    /\ wPc[c] = "take"
    /\ tokens' = tokens - refillRate
    /\ mu' = ""
    /\ taken' = taken + 1
    /\ lastTake' = [time |-> now, level |-> tokens']
    /\ took' = [took EXCEPT ![c] = took[c] + 1]
    /\ wPc' = [wPc EXCEPT ![c] = "ok"]
    /\ pre' = [pre EXCEPT ![c] = NoBucket]
    /\ deadline' = [deadline EXCEPT ![c] = 0]
    /\ ctxDone' = [ctxDone EXCEPT ![c] = FALSE]
    /\ UNCHANGED <<now, maxTokens, refillRate, lastRefill, added, wake, calls,
                   classifierVars, filterVars, outerVars>>

\* select: case <-ctx.Done()
SelectCancelled(c) ==
    /\ wPc[c] = "select"
    /\ ctxDone[c]
    /\ wPc' = [wPc EXCEPT ![c] = "cancelled"]
    /\ wake' = [wake EXCEPT ![c] = 0]
    /\ deadline' = [deadline EXCEPT ![c] = 0]
    /\ UNCHANGED <<now, bucketVars, ctxDone, calls, took, pre, classifierVars, filterVars,
            outerVars>>

\* select: case <-time.After(100 * time.Millisecond), then the deadline test
SelectTimer(c) ==
    /\ wPc[c] = "select"
    /\ now >= wake[c]
    /\ wPc' = [wPc EXCEPT ![c] = IF deadlinePassed(now, deadline[c]) THEN "timeout" ELSE "lock"]
    /\ wake' = [wake EXCEPT ![c] = 0]
    /\ UNCHANGED <<now, bucketVars, deadline, ctxDone, calls, took, pre, classifierVars,
                   filterVars, outerVars>>

\* the caller has a step of Wait to take
runnable(c) ==
    \/ wPc[c] \in {"refill", "check", "take"}
    \/ wPc[c] = "lock" /\ mutexFree
    \/ wPc[c] = "select" /\ (ctxDone[c] \/ now >= wake[c])

\* the clock ticks, as long as a Wait is under way or can still be entered
Tick ==
    /\ now < MaxTime
    /\ \/ \E c \in Callers : inWait(c)
       \/ calls < MaxCalls /\ now < MaxEntryTime
    /\ \A c \in Callers : ~runnable(c)
    /\ now' = now + 1
    /\ UNCHANGED <<bucketVars, waitVars, classifierVars, filterVars, outerVars>>

\* the steps of Wait
WaitStep(c) ==
    Lock(c) \/ Refill(c) \/ Check(c) \/ Take(c) \/ SelectCancelled(c) \/ SelectTimer(c)

NextBucket ==
    \/ Tick
    \/ \E c \in Callers : WaitEnter(c) \/ CtxCancel(c) \/ WaitStep(c)

SpecBucket == InitBucket /\ [][NextBucket]_vars

\* the scheduler runs a goroutine that can run, and time passes
SpecBucketFair ==
    /\ SpecBucket
    /\ WF_vars(Tick)
    /\ \A c \in Callers : WF_vars(WaitStep(c))

(***************************************************************************)
(* SendNotification, called by one goroutine at a time on a client whose   *)
(* bucket NewTokenBucket has just filled.  The steps of the call that take *)
(* no time are taken before the clock ticks; time passes in Wait's select  *)
(* and in the select of a retry.  httpClient.Do gives any of its outcomes, *)
(* but only an error when the context it is handed is cancelled already.   *)
(***************************************************************************)
\* an error that carries no text from outside
sendError(kind, inner) == [kind |-> kind, inner |-> inner, status |-> 0, desc |-> << >>]

\* the call is under way
sending == sPc \in {"wait", "attempt", "request", "backoff"}

\* where a cancellation finds the call: in Wait's select, in the select of a
\* retry, inside httpClient.Do, or between these
suspendedAt ==
    IF sPc = "wait" /\ wPc[Sender] = "select" THEN "wait"
    ELSE IF sPc = "backoff" THEN "backoff"
    ELSE IF sPc = "request" THEN "request"
    ELSE "between"

\* the timer of the select the call is suspended in has not fired
timerPending ==
    \/ sPc = "wait" /\ wPc[Sender] = "select" /\ now < wake[Sender]
    \/ sPc = "backoff" /\ now < sWake

\* SendNotification up to the call of Wait: the context's check, then
\* ValidateMessageSize, then Wait's first line
SendEnter(size, cancelled) ==
    /\ ~sending
    /\ sCalls < MaxCalls
    /\ now <= MaxEntryTime
    /\ sCalls' = sCalls + 1
    /\ sMsgLen' = size
    /\ sCtx' = cancelled
    /\ attempt' = 0
    /\ sWake' = 0
    /\ lastErr' = NoError
    /\ sAttempts' = 0
    /\ sRetryable' = 0
    /\ sOkAt' = 0
    /\ sClientAt' = 0
    /\ sSince' = 0
    /\ sDelays' = << >>
    /\ sCancel' = IF cancelled
                  THEN [NotCancelled EXCEPT !.where = "entry", !.took = taken, !.time = now]
                  ELSE NotCancelled
    /\ IF cancelled
       THEN /\ sPc' = "returned"
            /\ sErr' = sendError("context cancelled", "context")
            /\ UNCHANGED waitVars
       ELSE IF tooLong(size)
       THEN /\ sPc' = "returned"
            /\ sErr' = sendError("message validation failed", "too long")
            /\ UNCHANGED waitVars
       ELSE /\ sPc' = "wait"
            /\ sErr' = NoError
            /\ wPc' = [wPc EXCEPT ![Sender] = "lock"]
            /\ deadline' = [deadline EXCEPT ![Sender] = now + MaxWaitTicks]
            /\ ctxDone' = [ctxDone EXCEPT ![Sender] = FALSE]
            /\ took' = [took EXCEPT ![Sender] = 0]
            /\ calls' = calls + 1
            /\ UNCHANGED <<wake, pre>>
    /\ UNCHANGED <<now, bucketVars, classifierVars, filterVars, truncVars, notifyVars,
                   systemdVars>>

\* the context is cancelled, or its deadline passes, while the call is under way
SendCancel ==
    /\ sending
    /\ ~sCtx
    /\ sCtx' = TRUE
    /\ sCancel' = [where |-> suspendedAt, pending |-> timerPending, attempts |-> sAttempts,
                   took |-> taken, time |-> now]
    /\ ctxDone' = IF inWait(Sender) THEN [ctxDone EXCEPT ![Sender] = TRUE] ELSE ctxDone
    /\ UNCHANGED <<now, bucketVars, wPc, deadline, wake, calls, took, pre, sPc, sMsgLen,
                   attempt, sWake, lastErr, sErr, sCalls, sAttempts, sRetryable, sOkAt,
                   sClientAt, sSince, sDelays, classifierVars, filterVars, truncVars, notifyVars,
                   systemdVars>>

\* a step of Wait, which leaves the client's own state alone
SendWaitStep ==
    /\ sPc = "wait"
    /\ WaitStep(Sender)

\* mutant: the error of Wait is ignored
SendWaitReturn_Ignored ==
    /\ sPc = "wait"
    /\ wPc[Sender] \in {"ok", "cancelled", "timeout"}
    /\ sPc' = "attempt"
    /\ sSince' = now
    /\ UNCHANGED <<limiterVars, sMsgLen, sCtx, attempt, sWake, lastErr, sErr, sCalls,
                   sAttempts, sRetryable, sOkAt, sClientAt, sDelays, sCancel, classifierVars,
                   filterVars, truncVars, notifyVars, systemdVars>>

\* if err := c.rateLimiter.Wait(ctx); err != nil
SendWaitReturn ==
    /\ sPc = "wait"
    /\ wPc[Sender] \in {"ok", "cancelled", "timeout"}
    /\ IF wPc[Sender] = "ok"
       THEN /\ sPc' = "attempt"
            /\ sSince' = now
            /\ UNCHANGED sErr
       ELSE /\ sPc' = "returned"
            /\ sErr' = sendError("rate limit error", wPc[Sender])
            /\ UNCHANGED sSince
    /\ UNCHANGED <<limiterVars, sMsgLen, sCtx, attempt, sWake, lastErr, sCalls, sAttempts,
                   sRetryable, sOkAt, sClientAt, sDelays, sCancel, classifierVars,
                   filterVars, truncVars, notifyVars,
                   systemdVars>>

\* err := c.sendRequest(ctx, message) is called
SendRequest ==
    /\ sPc = "attempt"
    /\ sPc' = "request"
    /\ sAttempts' = sAttempts + 1
    /\ sDelays' = Append(sDelays, now - sSince)
    /\ UNCHANGED <<limiterVars, sMsgLen, sCtx, attempt, sWake, lastErr, sErr, sCalls,
                   sRetryable, sOkAt, sClientAt, sSince, sCancel, classifierVars,
                   filterVars, truncVars, notifyVars,
                   systemdVars>>

\* sendRequest returns, and the loop returns, or goes on to the select of the
\* next attempt with time.After(c.calculateBackoff(attempt))
SendResponse(outcome) ==
    /\ sPc = "request"
    /\ sCtx /\ sCancel.where # "request" => outcome.kind = "error"
    /\ \E err \in {sendRequest(outcome, sCtx)} :
          IF err = NoError
          THEN /\ sPc' = "returned"
               /\ sErr' = NoError
               /\ sOkAt' = sAttempts
               /\ UNCHANGED <<attempt, sWake, lastErr, sRetryable, sClientAt, sSince>>
          ELSE /\ lastErr' = err
               /\ IF isClientError(err)
                  THEN /\ sPc' = "returned"
                       /\ sErr' = err
                       /\ sClientAt' = sAttempts
                       /\ UNCHANGED <<attempt, sWake, sRetryable, sOkAt, sSince>>
                  ELSE /\ sRetryable' = sRetryable + 1
                       /\ IF lastAttempt(attempt)
                          THEN /\ sPc' = "returned"
                               /\ sErr' = exhausted(err)
                               /\ UNCHANGED <<attempt, sWake, sOkAt, sClientAt, sSince>>
                          ELSE /\ sPc' = "backoff"
                               /\ attempt' = attempt + 1
                               /\ sWake' = now + calculateBackoff(attempt + 1) * TicksPerSecond
                               /\ sSince' = now
                               /\ UNCHANGED <<sErr, sOkAt, sClientAt>>
    /\ UNCHANGED <<limiterVars, sMsgLen, sCtx, sCalls, sAttempts, sDelays, sCancel,
                   classifierVars, filterVars, truncVars, notifyVars,
                   systemdVars>>

\* mutant: the timer of the select is ready at once
SendBackoffTimer_Ready ==
    /\ sPc = "backoff"
    /\ sPc' = "attempt"
    /\ sWake' = 0
    /\ UNCHANGED <<limiterVars, sMsgLen, sCtx, attempt, lastErr, sErr, sCalls, sAttempts,
                   sRetryable, sOkAt, sClientAt, sSince, sDelays, sCancel, classifierVars,
                   filterVars, truncVars, notifyVars,
                   systemdVars>>

\* select: case <-time.After(delay)
SendBackoffTimer ==
    /\ sPc = "backoff"
    /\ now >= sWake
    /\ sPc' = "attempt"
    /\ sWake' = 0
    /\ UNCHANGED <<limiterVars, sMsgLen, sCtx, attempt, lastErr, sErr, sCalls, sAttempts,
                   sRetryable, sOkAt, sClientAt, sSince, sDelays, sCancel, classifierVars,
                   filterVars, truncVars, notifyVars,
                   systemdVars>>

\* select: case <-ctx.Done()
SendBackoffCancelled ==
    /\ sPc = "backoff"
    /\ sCtx
    /\ sPc' = "returned"
    /\ sErr' = sendError("retry cancelled", "context")
    /\ sWake' = 0
    /\ UNCHANGED <<limiterVars, sMsgLen, sCtx, attempt, lastErr, sCalls, sAttempts,
                   sRetryable, sOkAt, sClientAt, sSince, sDelays, sCancel, classifierVars,
                   filterVars, truncVars, notifyVars,
                   systemdVars>>

\* the call has a step to take
sendRunnable ==
    \/ sPc \in {"attempt", "request"}
    \/ sPc = "wait" /\ (runnable(Sender) \/ ~inWait(Sender))
    \/ sPc = "backoff" /\ (sCtx \/ now >= sWake)

\* the clock ticks while a call is suspended or can still be made
SendTick ==
    /\ now < MaxSendTime
    /\ \/ sending
       \/ sCalls < MaxCalls /\ now < MaxEntryTime
    /\ ~sendRunnable
    /\ now' = now + 1
    /\ UNCHANGED <<bucketVars, waitVars, classifierVars, filterVars, outerVars>>

NextSend ==
    \/ SendTick
    \/ \E size \in MessageSizes, cancelled \in BOOLEAN : SendEnter(size, cancelled)
    \/ SendCancel
    \/ SendWaitStep
    \/ SendWaitReturn
    \/ SendRequest
    \/ \E outcome \in DoOutcomes : SendResponse(outcome)
    \/ SendBackoffTimer
    \/ SendBackoffCancelled

SpecSend == InitBucket /\ [][NextSend]_vars

(***************************************************************************)
(* main: config.New, parseCommandLineArgs, SendServiceNotification.  The   *)
(* arguments and the host's name are drawn at the start, the answers of    *)
(* the environment when they are asked for.  What is logged or printed is  *)
(* recorded with the text of the error the site was handed.                *)
(***************************************************************************)
InitNotify ==
    /\ ClassifierIdle
    /\ FilterIdle
    /\ BucketIdle
    /\ TruncateIdle
    /\ SendIdle
    /\ SystemdIdle
    /\ mPc = "config"
    /\ mParser \in {"parseSystemdMode", "parseManualMode"}
    /\ mExtra \in ExtraArgs
    /\ mNameValid \in BOOLEAN
    /\ mArgs = [desc |-> << >>, custom |-> << >>]
    /\ mLog = << >>
    /\ nHost \in {TokHelloWorld, SecretText}
    /\ nRaw = [desc |-> << >>, output |-> << >>]
    /\ nData = NoData
    /\ nMessage = NoData
    /\ nQueries = << >>

\* a site logs or prints the error it was handed, through SanitizeErrorMessage
logged(site, err) ==
    Append(mLog, [site |-> site, handed |-> err.msg,
                  text |-> SanitizeErrorMessage(err, homeDir)])

\* wrapError, then main's log.Fatalf of the NotificationError
notificationFailed(op, err) ==
    logged("Notification failed - " \o op, FilterSecretsFromError(err))

\* cfg, err := config.New()
ConfigNew(err) ==
    /\ mPc = "config"
    /\ IF err.nil THEN mPc' = "args" /\ UNCHANGED mLog
       ELSE mPc' = "exited" /\ mLog' = logged("Configuration error", err)
    /\ UNCHANGED <<mParser, mExtra, mNameValid, mArgs, nHost, nRaw, nData, nMessage, nQueries,
                   classifierVars, filterVars, limiterVars, truncVars, sendVars,
                   systemdVars>>

\* parseCommandLineArgs, and main's own ValidateServiceName, which passes what
\* the parsers have validated: the name is validated first; parseSystemdMode
\* then logs a warning when the exit code is not to be had, parseManualMode
\* fails for a bad exit code
ParseArgs(err, code) ==
    /\ mPc = "args"
    /\ IF ~mNameValid
       THEN /\ mPc' = "exited"
            /\ mLog' = logged("Error", InvalidNameError)
            /\ UNCHANGED <<mArgs, nData>>
       ELSE IF mParser = "parseManualMode" /\ ~err.nil
       THEN /\ mPc' = "exited"
            /\ mLog' = logged("Error", err)
            /\ UNCHANGED <<mArgs, nData>>
       ELSE /\ mPc' = "notify"
            /\ mLog' = IF err.nil THEN mLog
                       ELSE logged("Warning: failed to get exit code info", err)
            /\ mArgs' = optionalArgs(mParser, mExtra)
            /\ nData' = [NoData EXCEPT !.ProcessExitCode = code, !.ServiceName = SvcX]
    /\ UNCHANGED <<mParser, mExtra, mNameValid, nHost, nRaw, nMessage, nQueries,
                   classifierVars, filterVars, limiterVars, truncVars, sendVars,
                   systemdVars>>

\* mutant: the service name is not validated
NotifyEnter_Unvalidated(cancelled) ==
    /\ mPc = "notify"
    /\ IF cancelled
       THEN mPc' = "exited" /\ mLog' = notificationFailed("context cancelled", CanceledError)
       ELSE mPc' = "description" /\ UNCHANGED mLog
    /\ UNCHANGED <<mParser, mExtra, mNameValid, mArgs, nHost, nRaw, nData, nMessage, nQueries,
                   classifierVars, filterVars, limiterVars, truncVars, sendVars,
                   systemdVars>>

\* SendServiceNotification: the context's check and ValidateServiceName
NotifyEnter(cancelled) ==
    /\ mPc = "notify"
    /\ IF cancelled
       THEN mPc' = "exited" /\ mLog' = notificationFailed("context cancelled", CanceledError)
       ELSE IF ~mNameValid
       THEN mPc' = "exited" /\ mLog' = notificationFailed("validation failed", ValidateNameError)
       ELSE mPc' = "description" /\ UNCHANGED mLog
    /\ UNCHANGED <<mParser, mExtra, mNameValid, mArgs, nHost, nRaw, nData, nMessage, nQueries,
                   classifierVars, filterVars, limiterVars, truncVars, sendVars,
                   systemdVars>>

\* getServiceDescription
GetServiceDescription(info) ==
    /\ mPc = "description"
    /\ mPc' = "output"
    /\ IF useProvided(mArgs.desc, nData.ServiceName)
       THEN /\ nData' = [nData EXCEPT !.ServiceDesc = mArgs.desc]
            /\ nRaw' = [nRaw EXCEPT !.desc = mArgs.desc]
            /\ UNCHANGED nQueries
       ELSE /\ nQueries' = Append(nQueries, "GetServiceInfo")
            /\ \E text \in {IF info.failed THEN DescriptionNotAvailable ELSE info.text} :
                  /\ nData' = [nData EXCEPT !.ServiceDesc = text]
                  /\ nRaw' = [nRaw EXCEPT !.desc = text]
    /\ UNCHANGED <<mParser, mExtra, mNameValid, mArgs, mLog, nHost, nMessage, classifierVars,
                   filterVars, limiterVars, truncVars, sendVars,
                   systemdVars>>

\* getCommandOutput
GetCommandOutput(output) ==
    /\ mPc = "output"
    /\ mPc' = "format"
    /\ nData' = [nData EXCEPT
                    !.Message = getCommandOutput(mArgs.custom, output, homeDir,
                                                 DefaultMaxOutputSize)]
    /\ IF mArgs.custom # << >>
       THEN /\ nRaw' = [nRaw EXCEPT !.output = mArgs.custom]
            /\ UNCHANGED nQueries
       ELSE /\ nRaw' = [nRaw EXCEPT !.output = output.text]
            /\ nQueries' = Append(nQueries, "GetServiceCommandOutput")
    /\ UNCHANGED <<mParser, mExtra, mNameValid, mArgs, mLog, nHost, nMessage, classifierVars,
                   filterVars, limiterVars, truncVars, sendVars,
                   systemdVars>>

\* GetHostname, formatAndValidateMessage and the context's last check
FormatMessage(cancelled) ==
    /\ mPc = "format"
    /\ nData' = formatAndValidateMessage([nData EXCEPT !.Hostname = nHost])
    /\ IF cancelled
       THEN /\ mPc' = "exited"
            /\ mLog' = notificationFailed("context cancelled before sending", CanceledError)
       ELSE mPc' = "send" /\ UNCHANGED mLog
    /\ UNCHANGED <<mParser, mExtra, mNameValid, mArgs, nHost, nRaw, nMessage, nQueries,
                   classifierVars, filterVars, limiterVars, truncVars, sendVars,
                   systemdVars>>

\* s.telegram.SendNotification(ctx, formattedMessage), and main's end
SendMessage(err) ==
    /\ mPc = "send"
    /\ nMessage' = nData
    /\ mPc' = "exited"
    /\ mLog' = IF err.nil THEN mLog
               ELSE notificationFailed("sending telegram notification", err)
    /\ UNCHANGED <<mParser, mExtra, mNameValid, mArgs, nHost, nRaw, nData, nQueries,
                   classifierVars, filterVars, limiterVars, truncVars, sendVars,
                   systemdVars>>

NextNotify ==
    \/ \E err \in OutsideErrors : ConfigNew(err)
    \/ \E err \in OutsideErrors, code \in ExitCodes : ParseArgs(err, code)
    \/ \E cancelled \in BOOLEAN : NotifyEnter(cancelled)
    \/ \E info \in Answers : GetServiceDescription(info)
    \/ \E output \in Answers : GetCommandOutput(output)
    \/ \E cancelled \in BOOLEAN : FormatMessage(cancelled)
    \/ \E err \in OutsideErrors : SendMessage(err)

SpecNotify == InitNotify /\ [][NextNotify]_vars

(***************************************************************************)
(* SendServiceNotification from the point where the description and the    *)
(* body are at hand, for texts of the size of a whole message.             *)
(***************************************************************************)
InitFormat ==
    /\ ClassifierIdle
    /\ FilterIdle
    /\ BucketIdle
    /\ TruncateIdle
    /\ SendIdle
    /\ SystemdIdle
    /\ mPc = "format"
    /\ mParser = "parseSystemdMode"
    /\ mNameValid = TRUE
    /\ mLog = << >>
    /\ nHost \in FormatHosts
    /\ \E desc \in FormatDescs, body \in FormatBodies :
          /\ mExtra = <<desc, body>>
          /\ mArgs = [desc |-> desc, custom |-> body]
          /\ nRaw = [desc |-> desc, output |-> body]
          /\ nData = [NoData EXCEPT !.ProcessExitCode = 255, !.ServiceName = SvcX,
                                    !.ServiceDesc = desc, !.Message = body]
    /\ nMessage = NoData
    /\ nQueries = << >>

NextFormat ==
    \/ \E cancelled \in BOOLEAN : FormatMessage(cancelled)
    \/ \E err \in OutsideErrors : SendMessage(err)

SpecFormat == InitFormat /\ [][NextFormat]_vars

(***************************************************************************)
(* The systemd service and SendServiceNotification, each called on its     *)
(* own: one call of ExecSystemctl, ExecJournalctl, GetSystemctlProperty or *)
(* GetServiceExitCodeInfo, or one call of SendServiceNotification with     *)
(* a service name that main has not validated.                             *)
(***************************************************************************)
InitSystemd ==
    /\ ClassifierIdle
    /\ FilterIdle
    /\ BucketIdle
    /\ TruncateIdle
    /\ SendIdle
    /\ xCall = NoCall
    /\ xResult = NoCall
    /\ \/ xPc = "ready" /\ NotifyIdle
       \/ /\ xPc = "idle"
          /\ mPc = "notify"
          /\ mParser = ""
          /\ mExtra = << >>
          /\ mNameValid \in BOOLEAN
          /\ mArgs \in [desc : {<< >>, TokHelloWorld}, custom : {<< >>, TokHelloWorld}]
          /\ mLog = << >>
          /\ nHost = TokHelloWorld
          /\ nRaw = [desc |-> << >>, output |-> << >>]
          /\ nData = [NoData EXCEPT !.ProcessExitCode = 255,
                                    !.ServiceName = IF mNameValid THEN SvcX ELSE << >>]
          /\ nMessage = NoData
          /\ nQueries = << >>

\* a call of GetServiceExitCodeInfo that returns before it reads the environment
\* is made with this environment and these answers only
FailedEnvironment == [EXIT_STATUS |-> <<"1">>, SERVICE_RESULT |-> <<"e","x","i","t","-","c","o","d","e">>]

AllAnswered ==
    <<<<Ran(PropExecMainStatus \o <<"=","0","\n">>), Failed>>,
      <<Ran(PropExecMainCode \o <<"=","1","\n">>), Failed>>,
      <<Ran(PropResult \o <<"=">> \o TextSuccess \o <<"\n">>), Failed>>>>

\* each call records what it was called with and what it returned; the
\* arguments and what the commands give are chosen at the call
ExecSystemctlCall ==
    /\ xPc = "ready"
    /\ xPc' = "returned"
    /\ \E cancelled \in BOOLEAN, scope \in Scopes, outcomes \in ScopeOutcomes(ShowResult) :
          /\ xCall' = [op |-> "ExecSystemctl", cancelled |-> cancelled, nameValid |-> TRUE,
                       scope |-> scope, outcomes |-> outcomes]
          /\ xResult' = ExecSystemctl(cancelled, scope, outcomes)
    /\ UNCHANGED <<classifierVars, filterVars, limiterVars, truncVars, sendVars, notifyVars>>

ExecJournalctlCall ==
    /\ xPc = "ready"
    /\ xPc' = "returned"
    /\ \E cancelled, nameValid \in BOOLEAN, scope \in Scopes,
          outcomes \in ScopeOutcomes({LineHello}) :
          /\ xCall' = [op |-> "ExecJournalctl", cancelled |-> cancelled,
                       nameValid |-> nameValid, scope |-> scope, outcomes |-> outcomes]
          /\ xResult' = ExecJournalctl(cancelled, nameValid,
                                       IF nameValid THEN SvcX ELSE << >>, scope, outcomes)
    /\ UNCHANGED <<classifierVars, filterVars, limiterVars, truncVars, sendVars, notifyVars>>

GetSystemctlPropertyCall ==
    /\ xPc = "ready"
    /\ xPc' = "returned"
    /\ \E cancelled, nameValid \in BOOLEAN, scope \in Scopes,
          outcomes \in ScopeOutcomes(ShowResult) :
          /\ xCall' = [op |-> "GetSystemctlProperty", cancelled |-> cancelled,
                       nameValid |-> nameValid, scope |-> scope, outcomes |-> outcomes]
          /\ xResult' = GetSystemctlProperty(cancelled, nameValid, PropResult, scope,
                                             outcomes)
    /\ UNCHANGED <<classifierVars, filterVars, limiterVars, truncVars, sendVars, notifyVars>>

GetServiceExitCodeInfoCall ==
    /\ xPc = "ready"
    /\ xPc' = "returned"
    /\ \E cancelled, nameValid \in BOOLEAN, env \in Environments,
          answers \in PropertyAnswers :
          /\ cancelled \/ ~nameValid => env = FailedEnvironment /\ answers = AllAnswered
          /\ xCall' = [op |-> "GetServiceExitCodeInfo", cancelled |-> cancelled,
                       nameValid |-> nameValid, env |-> env, answers |-> answers]
          /\ xResult' = GetServiceExitCodeInfo(cancelled, nameValid, env, answers)
    /\ UNCHANGED <<classifierVars, filterVars, limiterVars, truncVars, sendVars, notifyVars>>

NextSystemd ==
    \/ ExecSystemctlCall
    \/ ExecJournalctlCall
    \/ GetSystemctlPropertyCall
    \/ GetServiceExitCodeInfoCall
    \/ \E cancelled \in BOOLEAN : NotifyEnter(cancelled)
    \/ \E info \in Answers : GetServiceDescription(info)
    \/ \E output \in Answers : GetCommandOutput(output)
    \/ \E cancelled \in BOOLEAN : FormatMessage(cancelled)
    \/ \E err \in OutsideErrors : SendMessage(err)

SpecSystemd == InitSystemd /\ [][NextSystemd]_vars

(***************************************************************************)
(* TruncateMessage, called on its own.                                     *)
(***************************************************************************)
InitTruncate ==
    /\ ClassifierIdle
    /\ FilterIdle
    /\ BucketIdle
    /\ SendIdle
    /\ NotifyIdle
    /\ SystemdIdle
    /\ tmMsg \in TruncMessages
    /\ tmMax \in TruncSizes
    /\ tmPc = "call"
    /\ tmResult = << >>

\* TruncateMessage returns
TruncateReturn ==
    /\ tmPc = "call"
    /\ ~truncatePanics(tmMsg, tmMax)
    /\ tmResult' = TruncateMessage(tmMsg, tmMax)
    /\ tmPc' = "returned"
    /\ UNCHANGED <<tmMsg, tmMax, classifierVars, filterVars, limiterVars, sendVars, notifyVars,
                   systemdVars>>

\* msg[:maxSize] panics
TruncatePanic ==
    /\ tmPc = "call"
    /\ truncatePanics(tmMsg, tmMax)
    /\ tmPc' = "panicked"
    /\ UNCHANGED <<tmMsg, tmMax, tmResult, classifierVars, filterVars, limiterVars, sendVars, notifyVars,
                   systemdVars>>

NextTruncate == TruncateReturn \/ TruncatePanic

SpecTruncate == InitTruncate /\ [][NextTruncate]_vars

(***************************************************************************)
(* Claims about the classifiers.  A line counts as scanned once pos has    *)
(* passed it; lines are numbered from 1.                                   *)
(***************************************************************************)
\* the line carries the start keyword and the name of the service
hasStartKeywordAndName(line) == Contains(line, StartingKw) /\ Contains(line, serviceName)

\* the line is skipped by the structured classifier before anything else
isSeparatorOrOwnLog(line) == HasPrefix(line, SepPrefix) \/ Contains(line, SelfName)

\* the line is a start marker the classifier of the mode acts on
isEffectiveStart(line) ==
    IF mode = "journal"
    THEN hasStartKeywordAndName(line) /\ ~isSeparatorOrOwnLog(line)
    ELSE /\ ~HasPrefix(TrimSpace(line), SepPrefix)
         /\ Contains(TrimSpace(line), StartingSp)
         /\ Contains(TrimSpace(line), serviceName)

\* the entries the classifier of the mode accumulated, as the lines they came from
entrySources ==
    IF mode = "journal"
    THEN {logsSrc[k] : k \in 1..Len(logsSrc)} \cup {execSrc[k] : k \in 1..Len(execSrc)}
    ELSE {outSrc[k] : k \in 1..Len(outSrc)}

\* a step of the structured classifier that scans the next line
journalStepEnabled == mode = "journal" /\ pc = "loop" /\ pos < Len(lines)

nextLine == lines[pos + 1]

IsPrefix(s, t) == Len(s) <= Len(t) /\ SubSeq(t, 1, Len(s)) = s

IsStrictlyIncreasing(s) == \A i, j \in 1..Len(s) : i < j => s[i] < s[j]

C1_Window == <<LineStartX, LineHello, LineFinishedX>>

C1_Returned ==
    /\ mode = "journal"
    /\ pc = "returned"
    /\ invocationID = << >>
    /\ serviceName = SvcX
    /\ lines = C1_Window

\* C1, as claimed: the three-line window of x.service classifies to lifecycle
\* ["Starting x.service", "Finished x.service"] and output ["hello"].
C1_AsClaimed ==
    C1_Returned =>
        /\ SystemdLogs = <<MsgStartingX, MsgFinishedX>>
        /\ ExecutionResults = <<MsgHello>>

\* C1, amended: the start line resets the scan and is discarded, so the window
\* classifies to lifecycle ["Finished x.service"] and output ["hello"].
C1_EndToEnd ==
    C1_Returned =>
        /\ SystemdLogs = <<MsgFinishedX>>
        /\ ExecutionResults = <<MsgHello>>

C1_Witness == C1_Returned /\ SystemdLogs = <<MsgFinishedX>> /\ ExecutionResults = <<MsgHello>>

\* C2, as claimed: in both modes, once the window is processed, every entry comes
\* from a line after the last line that carries the start keyword and the service name.
C2_AsClaimed ==
    pc = "returned" =>
        \A i \in 1..Len(lines) :
            hasStartKeywordAndName(lines[i]) => \A n \in entrySources : n > i

\* C2, amended: the same for every start marker the classifier acts on, that is
\* one that is not skipped as a separator line ("-- ") or, in the structured mode,
\* as a log of the notifier itself.
C2_LatestExecutionOnly ==
    pc = "returned" =>
        \A i \in 1..Len(lines) :
            isEffectiveStart(lines[i]) => \A n \in entrySources : n > i

C2_Witness ==
    /\ mode = "journal"
    /\ pc = "returned"
    /\ invocationID # << >>
    /\ lines = <<LineHello, LineStartX, LineHello>>
    /\ ExecutionResults = <<MsgHello>>
    /\ execSrc = <<3>>

\* the next state of the scan is the one a reset leaves
resetNext ==
    /\ foundStart'
    /\ SystemdLogs' = << >>
    /\ ExecutionResults' = << >>
    /\ lastProcessName' = << >>
    /\ ~inCommandOutput'

\* C3, as claimed: in the structured classifier every line that carries the start
\* keyword and the service name resets the scan state and is added to neither sequence.
C3_AsClaimed ==
    [][(journalStepEnabled /\ hasStartKeywordAndName(nextLine)) => resetNext]_vars

\* C3, amended: a line that carries the start keyword and the service name and is
\* not skipped as a separator line or as a log of the notifier itself resets the
\* scan state and is added to neither sequence.
C3_StartResetsAndIsDiscarded ==
    [][(journalStepEnabled /\ hasStartKeywordAndName(nextLine)
            /\ ~isSeparatorOrOwnLog(nextLine)) => resetNext]_vars

C3_Witness ==
    /\ mode = "journal"
    /\ invocationID # << >>
    /\ pos = 3
    /\ SubSeq(lines, 1, 3) = <<LineHello, LineFinishedX, LineStartX>>
    /\ foundStart
    /\ SystemdLogs = << >>
    /\ ExecutionResults = << >>
    /\ lastProcessName = << >>
    /\ ~inCommandOutput

\* C4: a window without start marker for the service, classified without
\* invocation identifier, leaves both sequences empty.
C4_NoStartNoOutput ==
    (/\ mode = "journal"
     /\ invocationID = << >>
     /\ \A i \in 1..Len(lines) : ~hasStartKeywordAndName(lines[i]))
        => SystemdLogs = << >> /\ ExecutionResults = << >>

C4_Witness ==
    /\ mode = "journal"
    /\ pc = "returned"
    /\ invocationID = << >>
    /\ lines = <<LineHello, LineFinishedX, LineIndented>>
    /\ SystemdLogs = << >>
    /\ ExecutionResults = << >>

\* C5, as claimed: a "Starting T" line of another service T leaves the lifecycle
\* and output sequences accumulated for the service intact.
C5_AsClaimed ==
    [][(/\ journalStepEnabled
        /\ serviceName = SvcX
        /\ Contains(nextLine, StartingKw)
        /\ Contains(nextLine, SvcMyX))
            => /\ IsPrefix(SystemdLogs, SystemdLogs')
               /\ IsPrefix(ExecutionResults, ExecutionResults')]_vars

\* C6: in the structured classifier every line contributes at most one entry to at
\* most one of the two sequences, and the entries of each sequence are in the order
\* of the lines they came from.  Each entry is a suffix of the line it came from.
C6_OneEntryPerLineInOrder ==
    mode = "journal" =>
        /\ Len(logsSrc) = Len(SystemdLogs)
        /\ Len(execSrc) = Len(ExecutionResults)
        /\ IsStrictlyIncreasing(logsSrc)
        /\ IsStrictlyIncreasing(execSrc)
        /\ \A i \in 1..Len(logsSrc), j \in 1..Len(execSrc) : logsSrc[i] # execSrc[j]
        /\ \A i \in 1..Len(logsSrc) :
               logsSrc[i] \in 1..pos /\ HasSuffix(lines[logsSrc[i]], SystemdLogs[i])
        /\ \A j \in 1..Len(execSrc) :
               execSrc[j] \in 1..pos /\ HasSuffix(lines[execSrc[j]], ExecutionResults[j])

C6_Witness ==
    /\ mode = "journal"
    /\ pc = "returned"
    /\ logsSrc = <<2>>
    /\ execSrc = <<1, 3>>
    /\ SystemdLogs = <<MsgFinishedX>>
    /\ ExecutionResults = <<MsgHello, LineIndented>>

\* the next line reaches the categorization with a process name and a message
C7_TaggedLine ==
    /\ journalStepEnabled
    /\ foundStart
    /\ ~isSeparatorOrOwnLog(nextLine)
    /\ ~hasStartKeywordAndName(nextLine)
    /\ extractProcessName(nextLine) # << >>
    /\ extractMessage(nextLine) # << >>

C7_IsServiceManager(line) == extractProcessName(line) = SystemdName

C7_HasLifecycleKeyword(msg) ==
    \E kw \in {StartingKw, StartedKw, FinishedKw, FailedKw, DeactivatedKw} : Contains(msg, kw)

C7_ToLifecycle ==
    /\ SystemdLogs' = Append(SystemdLogs, extractMessage(nextLine))
    /\ ExecutionResults' = ExecutionResults

C7_ToOutput ==
    /\ ExecutionResults' = Append(ExecutionResults, extractMessage(nextLine))
    /\ SystemdLogs' = SystemdLogs
    /\ inCommandOutput'

C8_AsClaimed ==
    [][(/\ journalStepEnabled
        /\ foundStart
        /\ ~isSeparatorOrOwnLog(nextLine)
        /\ ~hasStartKeywordAndName(nextLine)
        /\ extractProcessName(nextLine) = << >>
        /\ ~inCommandOutput)
            => ExecutionResults' = ExecutionResults]_vars

\* C9, as claimed: a line without process name that is added to the output is
\* added verbatim.
C9_AsClaimed ==
    [][(/\ journalStepEnabled
        /\ foundStart
        /\ ~isSeparatorOrOwnLog(nextLine)
        /\ ~hasStartKeywordAndName(nextLine)
        /\ extractProcessName(nextLine) = << >>
        /\ Len(ExecutionResults') = Len(ExecutionResults) + 1)
            => ExecutionResults' = Append(ExecutionResults, nextLine)]_vars

\* C38: in the structured classifier's scan foundStart never goes from true back
\* to false, and whenever inCommandOutput is set or ExecutionResults is not
\* empty, lastProcessName is not empty and is not "systemd".
C38_ScanInvariants ==
    /\ [][foundStart => foundStart']_vars
    /\ []((mode = "journal" /\ (inCommandOutput \/ ExecutionResults # << >>)) =>
              (lastProcessName # << >> /\ lastProcessName # SystemdName))

\* C38, witness: after the start of the service, a line of myapp and a line
\* without process name, capture is on, the output has two entries and the last
\* process is myapp.
C38_Witness ==
    /\ mode = "journal"
    /\ pos = 3
    /\ SubSeq(lines, 1, 3) = <<LineStartX, LineHello, LineIndented>>
    /\ foundStart
    /\ inCommandOutput
    /\ Len(ExecutionResults) = 2
    /\ lastProcessName = CmdMyapp

\* C39: in the structured classifier a line that begins with "-- " or contains
\* "telegram-notifier" changes nothing: neither sequence and none of foundStart,
\* lastProcessName and inCommandOutput, also when the line has the start keyword
\* and the name of the service.
C39_SkippedLineChangesNothing ==
    [][(journalStepEnabled /\ isSeparatorOrOwnLog(nextLine)) =>
           UNCHANGED <<SystemdLogs, ExecutionResults, foundStart, lastProcessName,
                       inCommandOutput, logsSrc, execSrc>>]_vars

\* C39, witness: after the start of the service and a line of myapp, a separator
\* line or a line of the notifier that names the start of the service has been
\* scanned, and the output, the capture flag and the last process are as the
\* line of myapp left them.
C39_Witness ==
    /\ mode = "journal"
    /\ pos = 3
    /\ SubSeq(lines, 1, 2) = <<LineStartX, LineHello>>
    /\ lines[3] \in {LineSepStartX, LineSelfStartX}
    /\ hasStartKeywordAndName(lines[3])
    /\ SystemdLogs = << >>
    /\ ExecutionResults = <<MsgHello>>
    /\ foundStart
    /\ inCommandOutput
    /\ lastProcessName = CmdMyapp

\* the line is a "Finished"/"Failed" marker for the service, as shouldSkipLine finds it
isEndMarker(line) ==
    /\ shouldSkipLine(line, serviceName).skip
    /\ ~HasPrefix(TrimSpace(line), SepPrefix)
    /\ Contains(TrimSpace(line), serviceName)
    /\ Contains(TrimSpace(line), FinishedSp) \/ Contains(TrimSpace(line), FailedSp)

\* line n comes after an end marker with no start marker for the service in between
afterEndMarker(n) ==
    \E m \in 1..(n - 1) :
        /\ isEndMarker(lines[m])
        /\ \A j \in (m + 1)..(n - 1) : ~isEffectiveStart(lines[j])

\* processSimpleOutput has returned
simpleReturned == mode = "simple" /\ pc = "returned"

\* C33, as claimed: in the degraded mode no line that comes after a Finished/Failed
\* marker for the service and before the next start marker is in the returned
\* output, whether capture began at a start marker or at a command-name token.
C33_AsClaimed ==
    simpleReturned => \A k \in 1..Len(outSrc) : ~afterEndMarker(outSrc[k])

\* a blank line: nothing but white space
isBlank(line) == TrimSpace(line) = << >>

\* C34, as claimed: the output the degraded mode returns neither begins nor ends
\* with a blank line, whatever the length of the blank run that was captured.
C34_AsClaimed ==
    (simpleReturned /\ result # << >>) =>
        /\ ~isBlank(Split(result, "\n")[1])
        /\ ~isBlank(Split(result, "\n")[Len(Split(result, "\n"))])

(***************************************************************************)
(* Claims about FilterSecrets.  FilterSecrets has returned once fsIdx is   *)
(* the number of patterns; fsResult is then its return value.              *)
(***************************************************************************)
filterReturned == fsIdx = Len(SecretPatterns)

\* no pattern of SecretPatterns matches anywhere in text
noSecretPatternMatches(text) ==
    \A k \in 1..Len(SecretPatterns) : ~reMatches(SecretPatterns[k], text)

\* C10: FilterSecrets returns its input unchanged when no pattern of
\* SecretPatterns matches anywhere in the input.
C10_NoMatchIsIdentity ==
    (filterReturned /\ noSecretPatternMatches(fsInput)) => fsResult = fsInput

\* C10, witness: FilterSecrets has returned on " password ", a text that names
\* a secret keyword between white space but assigns it no value, so no pattern
\* matches it; it is returned as it was given.
C10_Witness ==
    /\ filterReturned
    /\ fsInput = Concat(<<Space, TokPassword, Space>>)
    /\ noSecretPatternMatches(fsInput)
    /\ fsResult = fsInput

\* C11: every match handed to the replacement func is replaced by its first 20
\* characters followed by "[REDACTED]" when it is longer than 20 characters, and
\* by "[REDACTED]" alone when it has 20 characters or fewer.
C11_ReplacementByLength ==
    \A k \in 1..Len(fsReplaced) :
        LET m == fsReplaced[k].match
            r == fsReplaced[k].with
        IN  /\ Len(m) > 20 => r = SubSeq(m, 1, 20) \o <<"[","R","E","D","A","C","T","E","D","]">>
            /\ Len(m) <= 20 => r = <<"[","R","E","D","A","C","T","E","D","]">>

\* C11, witness: "password=hello-world", a match of exactly 20 characters, has
\* been replaced by the marker alone and the text is now the marker.
C11_Witness ==
    /\ fsInput = Concat(<<TokPassword, TokEquals, TokHelloWorld>>)
    /\ Len(fsReplaced) = 1
    /\ fsReplaced[1].match = fsInput
    /\ Len(fsReplaced[1].match) = 20
    /\ fsResult = RedactedMarker

\* C12, as claimed: what FilterSecrets returns contains no substring that a
\* pattern of SecretPatterns matches.
C12_AsClaimed ==
    (fsCall = "FilterSecrets" /\ fsPc = "returned") => noSecretPatternMatches(fsResult)

\* a match longer than 20 characters was redacted and the 20 characters kept from
\* it are matched by a pattern of SecretPatterns
keptPrefixStillMatches ==
    \E k \in 1..Len(fsReplaced) :
        /\ Len(fsReplaced[k].match) > 20
        /\ ~noSecretPatternMatches(SubSeq(fsReplaced[k].match, 1, 20))

\* applied to what FilterSecrets returned, some pattern finds a match that is not
\* already 20 characters followed by the marker: its replacement differs from it
secondPassFindsUnredacted ==
    \E k \in 1..Len(SecretPatterns) :
        \E i \in 1..Len(replacements(SecretPatterns[k], fsResult)) :
            replacements(SecretPatterns[k], fsResult)[i].with
                # replacements(SecretPatterns[k], fsResult)[i].match

\* C36, as claimed: when the 20 characters kept from a redacted match are still
\* matched by a secret pattern, applying FilterSecrets to what it returned
\* changes the text again.
C36_AsClaimed ==
    (fsCall = "FilterSecrets" /\ fsPc = "returned" /\ keptPrefixStillMatches) =>
        FilterSecrets(fsResult) # fsResult

\* C36: FilterSecrets is single-pass: when the 20 characters kept from a redacted
\* match are still matched by a secret pattern, and a pattern finds in the
\* returned text a match that is not already the kept characters followed by the
\* marker, applying FilterSecrets to what it returned changes the text again.
C36_SecondPassChanges ==
    (/\ fsCall = "FilterSecrets"
     /\ fsPc = "returned"
     /\ keptPrefixStillMatches
     /\ secondPassFindsUnredacted) => FilterSecrets(fsResult) # fsResult

\* C36, witness: FilterSecrets has returned "Bearer abcdef1234567[REDACTED]" for
\* "Bearer abcdef1234567890ZZZZ"; the bearer pattern matches the 20 characters
\* kept, and a second application gives "[REDACTED][REDACTED]".
C36_Witness ==
    /\ fsCall = "FilterSecrets"
    /\ fsPc = "returned"
    /\ fsInput = Concat(<<TokBearer, Space, TokValue>>)
    /\ keptPrefixStillMatches
    /\ fsResult = SubSeq(fsInput, 1, 20) \o RedactedMarker
    /\ FilterSecrets(fsResult) = RedactedMarker \o RedactedMarker

\* the text of C13 and the part of its secret that must be gone
C13_Input == Concat(<<TokPassword, TokEquals, TokValue>>)

C13_SecretTail == <<"1","2","3","4","5","6","7","8","9","0","Z","Z","Z","Z">>

\* C13: FilterSecrets("password=abcdef1234567890ZZZZ") ends with "[REDACTED]"
\* and does not contain "1234567890ZZZZ".
C13_PasswordExample ==
    (fsCall = "FilterSecrets" /\ fsPc = "returned" /\ fsInput = C13_Input)
        => /\ HasSuffix(fsResult, <<"[","R","E","D","A","C","T","E","D","]">>)
           /\ ~Contains(fsResult, C13_SecretTail)

\* C13, witness: FilterSecrets has returned "password=abcdef12345[REDACTED]" for
\* "password=abcdef1234567890ZZZZ".
C13_Witness ==
    /\ fsCall = "FilterSecrets"
    /\ fsPc = "returned"
    /\ fsInput = C13_Input
    /\ fsResult = Concat(<<TokPassword, TokEquals, <<"a","b","c","d","e","f","1","2","3","4","5">>,
                           RedactedMarker>>)

\* C14: FilterSecretsFromError returns nil for a nil error, and for an error e
\* that is not nil an error that is not nil and whose message is
\* FilterSecrets(e.Error()).
C14_ErrorIsFiltered ==
    (fsCall = "FilterSecretsFromError" /\ fsPc = "returned")
        => IF fsErr.nil THEN fsErrOut.nil
           ELSE ~fsErrOut.nil /\ fsErrOut.msg = FilterSecrets(fsErr.msg)

\* C14, witness: FilterSecretsFromError has returned for an error whose message
\* holds a secret; the message of the error returned is the redacted one.
C14_Witness ==
    /\ fsCall = "FilterSecretsFromError"
    /\ fsPc = "returned"
    /\ ~fsErr.nil
    /\ fsErr.msg = Concat(<<TokBearer, Space, TokValue>>)
    /\ ~fsErrOut.nil
    /\ fsErrOut.msg # fsErr.msg
    /\ HasSuffix(fsErrOut.msg, RedactedMarker)

\* C15, as claimed: the string SanitizeErrorMessage returns contains none of
\* "/etc/systemd/", "/usr/lib/systemd/", "/lib/systemd/", nor the home directory
\* of the caller.
C15_AsClaimed ==
    (fsCall = "SanitizeErrorMessage" /\ fsPc = "returned")
        => /\ ~Contains(fsMsg, <<"/","e","t","c","/","s","y","s","t","e","m","d","/">>)
           /\ ~Contains(fsMsg, <<"/","u","s","r","/","l","i","b","/","s","y","s","t","e","m","d","/">>)
           /\ ~Contains(fsMsg, <<"/","l","i","b","/","s","y","s","t","e","m","d","/">>)
           /\ homeDir # << >> => ~Contains(fsMsg, homeDir)

(***************************************************************************)
(* Claims about the TokenBucket.  Levels are in units, refillRate of them  *)
(* a token; tryTake returns true with the step from "take" to "ok" and     *)
(* false with the step from "check" to "select".                           *)
(***************************************************************************)
\* C16: at every point the level of the bucket is at least 0 and at most
\* maxTokens.
C16_TokensInRange == 0 <= tokens /\ tokens <= maxTokens * refillRate

\* C16, witness: a refill that found the bucket full after time had passed has
\* left it at maxTokens.
C16_Witness ==
    \E c \in Callers :
        /\ wPc[c] = "check"
        /\ pre[c].tokens = maxTokens * refillRate
        /\ now > pre[c].lastRefill
        /\ tokens = maxTokens * refillRate

\* the level a caller's tryTake has after its refill: what it found plus the
\* ticks elapsed since the last refill, at most maxTokens
C17_Refilled(c) ==
    LET sum == pre[c].tokens + (now - pre[c].lastRefill)
    IN  IF sum > maxTokens * refillRate THEN maxTokens * refillRate ELSE sum

C17_ReturnsTrue(c) == wPc[c] = "take" /\ wPc'[c] = "ok"

C17_ReturnsFalse(c) == wPc[c] = "check" /\ wPc'[c] = "select"

\* C17, as claimed: tryTake refills up to the cap; with a token it deducts
\* exactly one and returns true; without, it returns false and leaves the level
\* and lastRefill as they were before the call.
C17_AsClaimed ==
    [][\A c \in Callers :
        /\ C17_ReturnsTrue(c)
            => C17_Refilled(c) >= refillRate /\ tokens' = C17_Refilled(c) - refillRate
        /\ C17_ReturnsFalse(c)
            => /\ C17_Refilled(c) < refillRate
               /\ tokens' = pre[c].tokens
               /\ lastRefill' = pre[c].lastRefill]_vars

\* C17, amended: tryTake refills up to the cap; with a token it deducts exactly
\* one and returns true; without, it returns false and deducts nothing: the
\* level is the refilled one and lastRefill is the time of the call.
C17_RefillThenTake ==
    [][\A c \in Callers :
        /\ C17_ReturnsTrue(c)
            => /\ C17_Refilled(c) >= refillRate
               /\ tokens' = C17_Refilled(c) - refillRate
               /\ lastRefill' = now
        /\ C17_ReturnsFalse(c)
            => /\ C17_Refilled(c) < refillRate
               /\ tokens' = C17_Refilled(c)
               /\ lastRefill' = now]_vars

\* C17, witness: a tryTake that came after time had passed has refilled and is
\* about to return false; the level is above what it found, still short of a
\* token, and lastRefill is now.
C17_Witness ==
    \E c \in Callers :
        /\ wPc[c] = "check"
        /\ pre[c].lastRefill < now
        /\ lastRefill = now
        /\ tokens = pre[c].tokens + (now - pre[c].lastRefill)
        /\ tokens < refillRate

\* C18, as claimed: when the last token taken left less than a token, the next
\* token is taken no sooner than the time a whole token takes to accumulate.
C18_AsClaimed ==
    [][\A c \in Callers :
        (C17_ReturnsTrue(c) /\ taken >= 1 /\ lastTake.level < refillRate)
            => now - lastTake.time >= refillRate]_vars

\* C18, amended: when the last token taken left less than a token, the next
\* token is taken no sooner than the time the missing part of a token takes to
\* accumulate.
C18_MissingPartAccumulates ==
    [][\A c \in Callers :
        (C17_ReturnsTrue(c) /\ taken >= 1 /\ lastTake.level < refillRate)
            => now - lastTake.time >= refillRate - lastTake.level]_vars

\* C18, witness: the last token taken left a part of a token, and a tryTake has
\* found a token again just when the missing part had accumulated, sooner than
\* a whole token takes.
C18_Witness ==
    \E c \in Callers :
        /\ wPc[c] = "take"
        /\ taken >= 1
        /\ 0 < lastTake.level
        /\ lastTake.level < refillRate
        /\ now - lastTake.time = refillRate - lastTake.level

\* what a Wait that has returned left behind
C19_Outcome(c) ==
    /\ wPc[c] = "ok" => took[c] = 1
    /\ wPc[c] = "cancelled" => ctxDone[c] /\ took[c] = 0
    /\ wPc[c] = "timeout" => now > deadline[c] /\ took[c] = 0

\* C19: every Wait returns; with success it has deducted exactly one token;
\* with the cancellation error its context was done and with the timeout error
\* its deadline had passed, and it has deducted no token.
C19_WaitReturns ==
    \A c \in Callers :
        /\ [](C19_Outcome(c))
        /\ inWait(c) ~> (wPc[c] \in {"ok", "cancelled", "timeout"})

\* C19, witness: of two Waits on a bucket of one token that comes back too
\* slowly, one has returned with success and the other with the timeout error
\* after its deadline.
C19_Witness ==
    \E c, d \in Callers :
        /\ wPc[c] = "ok" /\ took[c] = 1
        /\ wPc[d] = "timeout" /\ took[d] = 0 /\ ~ctxDone[d]
        /\ now > deadline[d]

\* C20: whatever the callers do at the same time, the level stays between 0
\* and maxTokens, one caller at a time is inside tryTake, and the tokens taken
\* are tokens the bucket had: what was taken and what is left make up the full
\* bucket of the start and what the refills added.
C20_Serialized ==
    /\ 0 <= tokens
    /\ tokens <= maxTokens * refillRate
    /\ Cardinality({c \in Callers : wPc[c] \in {"refill", "check", "take"}}) <= 1
    /\ taken * refillRate + tokens = maxTokens * refillRate + added

\* C20, witness: two callers went for the one token of the bucket at the same
\* tick; one has it, the other was refused and waits.
C20_Witness ==
    \E c, d \in Callers :
        /\ maxTokens = 1
        /\ wPc[c] = "ok"
        /\ wPc[d] = "select"
        /\ lastTake.time = now
        /\ wake[d] = now + PollTicks
        /\ taken = 1
        /\ tokens = 0

(***************************************************************************)
(* Claims about SendNotification.  An attempt is a call of sendRequest;    *)
(* the histories are those of the call under way or of the last call.      *)
(***************************************************************************)
\* the error ValidateMessageSize's failure is wrapped in
validationFailed == sErr.kind = "message validation failed"

\* C21, as claimed: every message of 4097 bytes or more is rejected with a
\* validation error before any attempt, and a message of 4096 bytes is not.
C21_AsClaimed ==
    /\ sMsgLen >= TelegramMaxMessageSize + 1 =>
           sPc = "returned" /\ validationFailed /\ sAttempts = 0
    /\ sMsgLen = TelegramMaxMessageSize => ~validationFailed

\* C21, amended: when the context is not cancelled on entry, every message of
\* 4097 bytes or more is rejected with a validation error before any attempt is
\* made and before Wait is entered; a message of up to 4096 bytes is never
\* rejected with a validation error.
C21_SizeBoundary ==
    /\ (sMsgLen >= TelegramMaxMessageSize + 1 /\ sCancel.where # "entry") =>
           sPc = "returned" /\ validationFailed /\ sAttempts = 0
    /\ sMsgLen <= TelegramMaxMessageSize => ~validationFailed
    /\ sPc = "wait" => sMsgLen <= TelegramMaxMessageSize

\* C21: the second call's message of 4097 bytes was rejected with the context
\* live, and the bucket has the one token less that the first call took
C21_Witness ==
    /\ sPc = "returned"
    /\ sMsgLen = TelegramMaxMessageSize + 1
    /\ validationFailed
    /\ sCancel = NotCancelled
    /\ sCalls = 2
    /\ taken = 1

\* the status of the last attempt's answer is one of 400..499
clientSideFailure == lastErr.kind = "http" /\ lastErr.status \in 400..499

\* C22: once an attempt has failed with a status of 400..499, SendNotification
\* has returned that attempt's error, and the number of attempts is what it was
\* when the failure was observed.
C22_ClientErrorIsFinal ==
    clientSideFailure =>
        /\ sPc = "returned"
        /\ sErr = lastErr
        /\ sClientAt = sAttempts
        /\ sRetryable = sAttempts - 1

\* C22: status 400 at the first attempt, and one attempt made
C22_Witness ==
    /\ sPc = "returned"
    /\ sErr.kind = "http"
    /\ sErr.status = 400
    /\ sAttempts = 1

\* C23: a call makes at most MaxHTTPRetries + 1 attempts; after a successful
\* attempt it has returned nil and made no attempt more; when every attempt
\* failed with a failure other than a 4xx status and the context is not
\* cancelled, it returns after exactly MaxHTTPRetries + 1 attempts with an error
\* that wraps the error of the last of them.
C23_AttemptsBounded ==
    /\ sAttempts <= MaxHTTPRetries + 1
    /\ sOkAt > 0 => sPc = "returned" /\ sErr = NoError /\ sAttempts = sOkAt
    /\ (sPc = "returned" /\ ~sCtx /\ sAttempts > 0 /\ sOkAt = 0 /\ ~clientSideFailure) =>
           /\ sAttempts = MaxHTTPRetries + 1
           /\ sRetryable = sAttempts
           /\ sErr.kind = "failed after retries"
           /\ sErr.inner = lastErr.kind
           /\ sErr.status = lastErr.status
           /\ sErr.desc = lastErr.desc

\* C23: four attempts failed, the last with status 500, and the error wraps it
C23_Witness ==
    /\ sPc = "returned"
    /\ ~sCtx
    /\ sAttempts = MaxHTTPRetries + 1
    /\ sErr.kind = "failed after retries"
    /\ sErr.inner = "http"
    /\ sErr.status = 500

\* min(InitialRetryDelay x RetryBackoffFactor^(n-1), MaxRetryDelay), in seconds
C24_Delay(n) ==
    Min({InitialRetryDelaySeconds * RetryBackoffFactor ^ (n - 1), MaxRetryDelaySeconds})

\* C24: no time passes between Wait's return and the first attempt; retry n
\* comes min(InitialRetryDelay x RetryBackoffFactor^(n-1), MaxRetryDelay) after
\* the failure before it, which is 1s, 2s, 4s for the three retries; the delays
\* do not decrease and none exceeds MaxRetryDelay.
C24_BackoffDelays ==
    /\ \A i \in 1..Len(sDelays) :
           sDelays[i] = IF i = 1 THEN 0 ELSE C24_Delay(i - 1) * TicksPerSecond
    /\ IsPrefix(sDelays, <<0, 1 * TicksPerSecond, 2 * TicksPerSecond, 4 * TicksPerSecond>>)
    /\ sPc = "backoff" => sWake = sSince + C24_Delay(attempt) * TicksPerSecond
    /\ \A n \in 1..MaxRetryNumber :
           /\ calculateBackoff(n) = C24_Delay(n)
           /\ calculateBackoff(n) <= calculateBackoff(n + 1)
           /\ calculateBackoff(n) <= MaxRetryDelaySeconds

\* C24: the fourth attempt was made, 1s, 2s and 4s after the failures before it
C24_Witness ==
    /\ Len(sDelays) = MaxHTTPRetries + 1
    /\ sDelays[4] = 4 * TicksPerSecond
    /\ sAttempts = 4

\* C25, as claimed: the text of the error SendNotification returns after its
\* last retry is what FilterSecrets makes of the text of the error that wraps
\* the last attempt's error.
C25_AsClaimed ==
    (sPc = "returned" /\ sErr.kind = "failed after retries") =>
        errorText(sErr) = FilterSecrets(errorText(exhausted(lastErr)))

\* the error is one of the three SendNotification makes of a done context
cancellationError ==
    \/ sErr.kind = "context cancelled"
    \/ sErr.kind = "rate limit error" /\ sErr.inner = "cancelled"
    \/ sErr.kind = "retry cancelled"

\* a context cancelled on entry gives the cancellation error, no token is taken
\* and no attempt is made
C26_CancelledOnEntry ==
    sCancel.where = "entry" =>
        /\ sPc = "returned"
        /\ sErr.kind = "context cancelled"
        /\ sAttempts = 0
        /\ taken = sCancel.took

\* C26, as claimed: once the context was cancelled while the call was in Wait's
\* select or in the select of a retry, no attempt is made and the call returns a
\* cancellation error; cancelled on entry, it returns a cancellation error with
\* no token taken and no attempt.
C26_AsClaimed ==
    /\ sCancel.where \in {"wait", "backoff"} =>
           /\ sAttempts = sCancel.attempts
           /\ sPc = "returned" => cancellationError
    /\ C26_CancelledOnEntry

\* C26, amended: once the context was cancelled while the call was in Wait's
\* select or in the select of a retry with the select's timer not yet fired, no
\* attempt is made, no token is taken and no time passes before the call
\* returns, and it returns the cancellation error of that select; cancelled on
\* entry, it returns a cancellation error with no token taken and no attempt.
C26_CancellationWins ==
    /\ (sCancel.where \in {"wait", "backoff"} /\ sCancel.pending) =>
           /\ sAttempts = sCancel.attempts
           /\ taken = sCancel.took
           /\ sending => now = sCancel.time
           /\ sPc = "returned" =>
                  sErr.kind = IF sCancel.where = "wait" THEN "rate limit error"
                              ELSE "retry cancelled"
           /\ sPc = "returned" => cancellationError
    /\ C26_CancelledOnEntry

\* C26: the call has returned from the select of its second retry, where the
\* cancellation found it a second before the timer
C26_Witness ==
    /\ sPc = "returned"
    /\ sCancel.where = "backoff"
    /\ sCancel.pending
    /\ sCancel.attempts = 2
    /\ sCancel.time = sSince + TicksPerSecond
    /\ sErr.kind = "retry cancelled"
    /\ sAttempts = 2

\* C37: one call of SendNotification takes at most one token, in Wait and
\* before its first attempt; no attempt is made by a call that took none, no
\* token is taken during the attempts and the retries, and a call turned away
\* on entry, for its size or its context, takes none.
C37_OneTokenPerCall ==
    /\ [](took[Sender] <= 1)
    /\ [](sAttempts > 0 => took[Sender] = 1)
    /\ [][taken' # taken =>
              /\ taken' = taken + 1
              /\ sPc = "wait"
              /\ sAttempts = 0
              /\ took[Sender] = 0]_vars
    /\ [][(~sending /\ sPc' = "returned" /\ sCalls' = sCalls + 1) => taken' = taken]_vars

\* C37, witness: the third call has returned after four attempts, the first two
\* were turned away on entry, and one token is gone from the bucket.
C37_Witness ==
    /\ sPc = "returned"
    /\ sCalls = 3
    /\ sAttempts = MaxHTTPRetries + 1
    /\ sRetryable = MaxHTTPRetries + 1
    /\ took[Sender] = 1
    /\ taken = 1

(***************************************************************************)
(* Claims about main and SendServiceNotification.                          *)
(***************************************************************************)
\* the message has been handed to the delivery client
handedOver == mPc = "exited" /\ nMessage # NoData

\* C27, as the specification states it: in the message handed to
\* SendNotification, the description of the service, the hostname and the
\* body (a custom message, the journal's output or the text of its error) are
\* each what the Redaction Filter made of the text they were taken from.
C27_AsClaimed ==
    handedOver =>
        /\ nMessage.ServiceDesc = FilterSecrets(nRaw.desc)
        /\ nMessage.Hostname = FilterSecrets(nHost)
        /\ nMessage.Message \in {FilterSecrets(nRaw.output),
                                 UnableToRetrieve \o FilterSecrets(nRaw.output)}

\* C28: whatever main logs or prints on a failure path (configuration error,
\* argument error, exit-info warning, notification failure) is the text of the
\* error the site was handed after the Redaction Filter, and then the rewriting
\* of paths, have been applied to it.
C28_LoggedTextIsFiltered ==
    \A i \in 1..Len(mLog) :
        mLog[i].text = sanitizePaths(FilterSecrets(mLog[i].handed), homeDir)

\* C28's case: a site was handed an error whose text holds a secret, and what
\* it logged is not the text it was handed.
C28_Witness ==
    \E i \in 1..Len(mLog) :
        /\ Contains(mLog[i].handed, TokValue)
        /\ ~Contains(mLog[i].text, TokValue)
        /\ mLog[i].site = "Error"

\* C31, as the specification states it: the message handed to the delivery
\* client is never longer than TelegramMaxMessageSize - MessageSafetyMargin
\* bytes, whatever the hostname, the description and the body.
C31_AsClaimed ==
    handedOver => messageSize(nMessage) <= TelegramMaxMessageSize - MessageSafetyMargin

(***************************************************************************)
(* Claims about the systemd service and about SendServiceNotification      *)
(* called on its own.  What SendServiceNotification returned is read from  *)
(* the operation of its NotificationError.                                 *)
(***************************************************************************)
\* SendServiceNotification returned the error of the operation op
returnedFrom(op) ==
    /\ mPc = "exited"
    /\ mLog # << >>
    /\ mLog[Len(mLog)].site = "Notification failed - " \o op

\* nothing was asked of the systemd service and nothing handed to the client
nothingDone == nQueries = << >> /\ nMessage = NoData

\* the call of the systemd service returned ValidateServiceName's error and ran
\* no command
rejectedUnrun ==
    /\ xResult.err = FilterSecretsFromError(ValidateNameError)
    /\ xResult.executed = 0

\* C32, as the specification states it: with a service name that fails
\* ValidateServiceName, SendServiceNotification returns a validation error
\* with no query and nothing handed to the delivery client, and ExecJournalctl
\* and GetSystemctlProperty return that error without running a command.
C32_AsClaimed ==
    /\ mPc = "exited" /\ ~mNameValid => returnedFrom("validation failed") /\ nothingDone
    /\ (/\ xPc = "returned"
        /\ xCall.op \in {"ExecJournalctl", "GetSystemctlProperty"}
        /\ ~xCall.nameValid) => rejectedUnrun

\* C32, amended: the same for SendServiceNotification and ExecJournalctl when
\* the context is not already cancelled at the call, and for
\* GetSystemctlProperty whatever the context.
C32_ValidationIsImmediate ==
    /\ (/\ mPc = "exited"
        /\ ~mNameValid
        /\ ~returnedFrom("context cancelled")) =>
           returnedFrom("validation failed") /\ nothingDone
    /\ (/\ xPc = "returned"
        /\ xCall.op = "ExecJournalctl"
        /\ ~xCall.nameValid
        /\ ~xCall.cancelled) => rejectedUnrun
    /\ (/\ xPc = "returned"
        /\ xCall.op = "GetSystemctlProperty"
        /\ ~xCall.nameValid) => rejectedUnrun

\* C32's case: SendServiceNotification was called with a name that is not valid
\* and a live context, and has returned the validation error.
C32_Witness == ~mNameValid /\ mParser = "" /\ returnedFrom("validation failed")

\* a code GetServiceExitCodeInfo takes from EXIT_STATUS
validExitStatus(env) ==
    /\ env.EXIT_STATUS # << >>
    /\ Atoi(env.EXIT_STATUS).ok
    /\ ValidateExitCode(Atoi(env.EXIT_STATUS).n)

\* C35, as the claim states it: when EXIT_STATUS holds a valid code or
\* SERVICE_RESULT is set, the ProcessExitCode and ServiceSuccess that
\* GetServiceExitCodeInfo returns are the ones the environment gives, whatever
\* the properties ExecMainStatus and Result hold.
C35_AsClaimed ==
    (/\ xPc = "returned"
     /\ xCall.op = "GetServiceExitCodeInfo"
     /\ xResult.err.nil
     /\ validExitStatus(xCall.env) \/ xCall.env.SERVICE_RESULT # << >>) =>
        /\ xResult.info.ProcessExitCode
               = fromEnvironment(DefaultExitCodeInfo, xCall.env).ProcessExitCode
        /\ xResult.info.ServiceSuccess
               = fromEnvironment(DefaultExitCodeInfo, xCall.env).ServiceSuccess

\* C40, as the claim states it: a result of ExecSystemctl with empty output has
\* Error set, whatever the scopes tried gave.
C40_AsClaimed ==
    xPc = "returned" /\ xCall.op = "ExecSystemctl" =>
        xResult.Output # << >> \/ ~xResult.Error.nil

(***************************************************************************)
(* Claims about TruncateMessage.                                           *)
(***************************************************************************)
\* C29, as claimed: for every message and every maximum size TruncateMessage
\* returns a string of at most maxSize bytes, and the message itself when it is
\* not longer than maxSize.
C29_AsClaimed ==
    /\ tmPc # "panicked"
    /\ tmPc = "returned" =>
           /\ Len(tmResult) <= tmMax
           /\ Len(tmMsg) <= tmMax => tmResult = tmMsg

\* C30, as claimed: whenever the message is longer than maxSize, TruncateMessage
\* returns the truncation marker followed by a suffix of the message.
C30_AsClaimed ==
    (tmPc = "returned" /\ Len(tmMsg) > tmMax) =>
        /\ HasPrefix(tmResult, OutputTruncatedMsg)
        /\ HasSuffix(tmMsg, TrimPrefix(tmResult, OutputTruncatedMsg))

====
